---- MODULE Spec2Model ----
(***************************************************************************)
(* Model of the camera acquisition core of lab-control-lib                 *)
(* (src/camera.py, class CameraBase) and of the scan bookkeeping it        *)
(* consults (src/lclib/manager.py, class ManagerBase).                     *)
(*                                                                         *)
(* Threads: the caller's thread executing one command at a time (snap,     *)
(* arm, disarm, roll_on, roll_off, abort), the acquisition loop thread     *)
(* started by arm(), and abort() arriving as an interrupt while the        *)
(* non-blocking snap() is in progress.  The manager lives in another       *)
(* process: its scans start and end, and it crashes and comes back, at any *)
(* time.                                                                   *)
(*                                                                         *)
(* Strings are sequences of one-character strings; the two format fields   *)
(* "{0}" and "{0:06d}" are single tokens.  Times are in milliseconds.      *)
(***************************************************************************)
EXTENDS Integers, Sequences, FiniteSets, TLC

VARIABLES
    \* ---- CameraBase fields (camera.py 128-160)
    armed, rolling, auto_armed, filename, end_acquisition, scan_path,
    abort_flag, stop_rolling_flag,
    exposure_time_before_roll, exposure_number_before_roll,
    do_acquire, acquire_done,
    \* ---- device settings behind the exposure_time / exposure_number properties
    exposure_time, exposure_number,
    \* ---- persisted configuration (camera.py 99-109)
    file_format, save_mode, file_prefix, save_path, counter, roll_fps,
    do_broadcast, base_path,
    \* ---- file writer process: its saving mode
    fw_mode,
    \* ---- acquisition loop thread: position
    lpc,
    \* ---- caller's thread: position, return stack, arguments of a nested arm
    cpc, cstack, arm_args,
    \* ---- ManagerBase (manager.py 119-130) and its reachability
    connected, running, mcounter, scan_number, scan_dirs,
    \* ---- the command in progress: its name and arguments, and whether it
    \*      has armed and disarmed so far; how the last command ended
    cmd, ev, cres,
    \* ---- history: the outcome of the device trigger of the snap() in
    \*      progress and the frames enqueued for it, how far a run "arm,
    \*      disarm, disarm" of commands has come, the prefixes handed to
    \*      snap() in the current scan
    trig, enqueued, chain, prefixes,
    \* ---- metadata: the dict objects (each with the request whose device
    \*      fields it holds and the request whose acquisition_start it holds,
    \*      0 for none), self.localmeta as a reference to one of them, the
    \*      grab_metadata event; the metadata loop thread: position, the
    \*      request it serves, the reference it has loaded; the requests made
    heap, localmeta, grab_metadata, mpc, mreq, mptr, nreq,
    \* ---- the thread calling enqueue_frame: position, its local localmeta
    tpc, tptr,
    \* ---- frame queue, frames enqueued so far, closing flag, do_save
    frame_queue, frame_queue_empty_flag, nframes, closing, do_save,
    \* ---- frame dispatch loop thread: position, the item it holds; history:
    \*      the frames dequeued, passed to the file writer (with do_save as
    \*      it was then) and passed to the streamer, and the store that failed
    fpc, fitem, dispatched, stored, streamed, failed,
    \* ---- ManagerBase configuration and scan_info, and the last call
    \*      answered by the manager and its end
    investigation, experiment, mres, scan_info,
    \* ---- the sink processes: whether the acquisition loop, in the pass
    \*      it is in, has asked the file writer to open its file, and whether
    \*      stop() was called on the file writer and on the frame streamer
    opened, fw_stopped, fs_stopped

camVars == <<armed, rolling, auto_armed, filename, end_acquisition, scan_path,
             abort_flag, stop_rolling_flag, exposure_time_before_roll,
             exposure_number_before_roll, do_acquire, acquire_done,
             exposure_time, exposure_number>>
cfgVars == <<file_format, save_mode, file_prefix, save_path, counter, roll_fps,
             do_broadcast, base_path, fw_mode>>
mgrVars == <<connected, running, mcounter, scan_number, scan_dirs>>
metaVars == <<heap, localmeta, grab_metadata, mpc, mreq, mptr, nreq>>
enqVars == <<tpc, tptr, frame_queue, frame_queue_empty_flag, nframes>>
dispVars == <<closing, do_save, fpc, fitem, dispatched, stored, streamed,
              failed>>
mgrCfgVars == <<investigation, experiment, mres, scan_info>>
sinkVars == <<opened, fw_stopped, fs_stopped>>
\* what the commands leave alone
restVars == <<metaVars, enqVars, dispVars, mgrCfgVars, sinkVars>>
\* what the acquisition loop leaves alone besides the sinks
idleVars == <<metaVars, enqVars, dispVars, mgrCfgVars>>
\* what the metadata loop, enqueue_frame and the dispatch loop leave alone
coreVars == <<camVars, cfgVars, lpc, mgrVars, cpc, cstack, arm_args, cmd, ev,
              cres, chain, trig, enqueued, prefixes>>
\* what a step of the caller's thread sets through Step, Return and Raise
ctlVars == <<cpc, cstack, arm_args, cmd, ev, cres, chain, trig, enqueued>>
vars == <<camVars, cfgVars, lpc, mgrVars, ctlVars, prefixes, restVars>>

\* Python's None where a string is expected (a token no string contains) and
\* where a number is expected
None == <<"None">>
NoNumber == 0 - 1

-----------------------------------------------------------------------------
(* Bounds of the model *)

\* camera counter and manager prefix counter stay below this
MaxCounter == 1
MaxPrefixes == 2
\* number of scans started
MaxScans == 1
\* grab_metadata requests made by the device's trigger
MaxRequests == 2
\* frames passed to enqueue_frame
MaxFrames == 3

-----------------------------------------------------------------------------
(* Program constants *)

DEFAULT_FPS == 5
MAX_FPS == 5
\* roll_on's "largish exposure number"
ROLL_EXPOSURE_NUMBER == 100
\* roll_on's tolerance .01 s on the time per frame, in ms
ROLL_TOLERANCE == 10
\* width of the '{0:06d}' field of the scan name and of the prefix
PAD_WIDTH == 6

-----------------------------------------------------------------------------
(* Strings *)

DigitChars == <<"0", "1", "2", "3", "4", "5", "6", "7", "8", "9">>

RECURSIVE Digits(_)
\* str(n) for n >= 0
Digits(n) == IF n < 10 THEN <<DigitChars[n + 1]>>
             ELSE Digits(n \div 10) \o <<DigitChars[(n % 10) + 1]>>

RECURSIVE Zeros(_)
Zeros(k) == IF k <= 0 THEN <<>> ELSE <<"0">> \o Zeros(k - 1)

\* '{0:06d}'.format(n): zero padded to PAD_WIDTH, longer numbers in full
Pad(n) == Zeros(PAD_WIDTH - Len(Digits(n))) \o Digits(n)

RECURSIVE Format(_, _)
\* str.format(n) of a template whose fields are "{0}" and "{0:06d}"
Format(tpl, n) ==
    IF tpl = <<>> THEN <<>>
    ELSE (CASE Head(tpl) = "{0}" -> Digits(n)
            [] Head(tpl) = "{0:06d}" -> Pad(n)
            [] OTHER -> <<Head(tpl)>>) \o Format(Tail(tpl), n)

\* one step of posixpath.join: an absolute component restarts the path
Join2(a, b) ==
    IF b # <<>> /\ Head(b) = "/" THEN b
    ELSE IF a = <<>> \/ a[Len(a)] = "/" THEN a \o b
    ELSE a \o <<"/">> \o b

\* os.path.join(a, b, c)
PathJoin(a, b, c) == Join2(Join2(a, b), c)

LowerChar(c) ==
    CASE c = "R" -> "r" [] c = "A" -> "a" [] c = "M" -> "m"
      [] c = "H" -> "h" [] c = "D" -> "d" [] c = "F" -> "f"
      [] c = "T" -> "t" [] c = "I" -> "i" [] c = "P" -> "p"
      [] c = "E" -> "e" [] c = "N" -> "n" [] c = "S" -> "s"
      [] c = "G" -> "g" [] c = "L" -> "l" [] c = "B" -> "b"
      [] c = "O" -> "o" [] c = "U" -> "u" [] c = "W" -> "w"
      [] OTHER -> c

\* str.lower()
Lower(s) == [i \in 1..Len(s) |-> LowerChar(s[i])]

HDF5 == <<"h", "d", "f", "5">>
TIFF == <<"t", "i", "f", "f">>
RAM == <<"r", "a", "m">>
APPEND == <<"a", "p", "p", "e", "n", "d">>
SINGLE == <<"s", "i", "n", "g", "l", "e">>

\* an empty dict: device fields of no request, acquisition_start of none
NoMeta == [fields |-> 0, start |-> 0]
\* no frame item: frame 0 and no dict; rolling records, for a frame, whether
\* the camera was rolling when the frame was put in the queue
NoItem == [frame |-> 0, meta |-> 0, rolling |-> FALSE]
\* no manager setter called yet
NoCall == [op |-> "none", arg |-> <<>>, res |-> "none"]

-----------------------------------------------------------------------------
(* Input values of the commands *)

\* (exp_time, exp_num) of snap() and arm(): no override, or 0.5 s and 3
ExpArgs == {<<NoNumber, NoNumber>>, <<500, 3>>}
\* fps of roll_on(): none (the stored roll_fps), or 100 and 125, which differ
\* by 2 ms per frame
FpsArgs == {NoNumber, 100, 125}

-----------------------------------------------------------------------------
(* ManagerBase *)

INVESTIGATION == <<"i">>
EXPERIMENT == <<"e">>

\* the investigations and experiments there are names for
Investigations == {INVESTIGATION, <<"j">>}
Experiments == {EXPERIMENT, <<"f">>}
\* the experiment directories
ExperimentPaths == {Join2(i, e) : i \in Investigations, e \in Experiments}
\* what a setter is called with besides the names: None, and a name with
\* a character that _VALID_CHAR does not hold
BadNames == {None, <<"a", "/">>}

\* ManagerBase._VALID_CHAR
VALID_CHAR ==
    {"a", "b", "c", "d", "e", "f", "g", "h", "i", "j", "k", "l", "m", "n",
     "o", "p", "q", "r", "s", "t", "u", "v", "w", "x", "y", "z",
     "A", "B", "C", "D", "E", "F", "G", "H", "I", "J", "K", "L", "M", "N",
     "O", "P", "Q", "R", "S", "T", "U", "V", "W", "X", "Y", "Z",
     "0", "1", "2", "3", "4", "5", "6", "7", "8", "9", "_", "-", ":"}

\* ManagerBase._valid_name
valid_name(v) == \A k \in 1..Len(v) : v[k] \in VALID_CHAR

\* ManagerBase.path, for an investigation and an experiment that are set
mgr_path == Join2(investigation, experiment)

\* start_scan's scan_name for scan number n with no label: the number, zero
\* padded, and the date (the token "D")
ScanName(n) == Pad(n) \o <<"_", "D">>

\* start_scan's _base_file_name
BaseFileName(n) == ScanName(n) \o <<"_", "{0:06d}">>

\* ManagerBase.scan_path as the camera's proxy reads it
mgr_scan_path ==
    IF ~running THEN None ELSE Join2(mgr_path, ScanName(scan_number))

\* manager.getManager() is not None
man_ok == connected

\* CameraBase.in_scan
in_scan == IF ~man_ok THEN FALSE ELSE mgr_scan_path # None

\* ManagerBase.next_scan: the number after the last scan directory
next_scan == scan_dirs[mgr_path]

\* a call of the manager with argument v has ended with res
Answered(op, v, res) == mres' = [op |-> op, arg |-> v, res |-> res]

\* the localmeta arguments of start_scan: none (the default), an empty
\* dict and a dict with one entry; a dict is modelled by its keys
LocalMetas == {None, <<>>, <<"sample">>}

\* the dict start_scan builds for scan number n and updates with localmeta
ScanInfo(n, lm) == [scan_number |-> n, investigation |-> investigation,
                    experiment |-> experiment, path |-> mgr_path,
                    localmeta |-> lm]

\* ManagerBase.scan_info when it is the empty dict
NoScanInfo == [scan_number |-> NoNumber, investigation |-> None,
               experiment |-> None, path |-> None, localmeta |-> <<>>]

\* ManagerBase.start_scan(localmeta=lm) in the manager's process, with an
\* experiment set and no label.  `if localmeta is None: local_meta = {}`
\* assigns another name, so that with no localmeta scan_info.update(None)
\* raises TypeError after the scan was marked running, the counter reset
\* and the directory made, and before scan_info is stored and returned.
start_scan_call(lm) ==
    /\ connected
    /\ ~running
    /\ experiment # None
    /\ scan_dirs[mgr_path] < MaxScans
    /\ scan_number' = next_scan
    /\ running' = TRUE
    /\ mcounter' = 0
    /\ scan_dirs' = [scan_dirs EXCEPT ![mgr_path] = @ + 1]
    /\ prefixes' = <<>>
    /\ IF lm = None
       THEN /\ Answered("start_scan", lm, "TypeError")
            /\ UNCHANGED scan_info
       ELSE /\ scan_info' = ScanInfo(next_scan, lm)
            /\ Answered("start_scan", lm, "scan_info")
    /\ UNCHANGED <<camVars, cfgVars, lpc, ctlVars, connected, metaVars,
                   enqVars, dispVars, sinkVars, investigation, experiment>>

\* the default call start_scan()
start_scan == start_scan_call(None)

\* start_scan called with or without localmeta
call_start_scan == \E lm \in LocalMetas : start_scan_call(lm)

\* ManagerBase.end_scan
end_scan ==
    /\ connected
    /\ running
    /\ running' = FALSE
    /\ prefixes' = <<>>
    /\ scan_info' = NoScanInfo
    /\ UNCHANGED <<camVars, cfgVars, lpc, ctlVars, connected, mcounter,
                   scan_number, scan_dirs, metaVars, enqVars, dispVars,
                   sinkVars, investigation, experiment, mres>>

\* The manager process dies: getManager() returns None from now on, and a
\* restarted manager has no scan running (ManagerBase.__init__)
manager_crash ==
    /\ connected
    /\ connected' = FALSE
    /\ running' = FALSE
    /\ mcounter' = 0
    /\ prefixes' = <<>>
    /\ scan_info' = NoScanInfo
    /\ UNCHANGED <<camVars, cfgVars, lpc, ctlVars, scan_number, scan_dirs,
                   metaVars, enqVars, dispVars, sinkVars, investigation,
                   experiment, mres>>

manager_restart ==
    /\ ~connected
    /\ connected' = TRUE
    /\ scan_number' = next_scan
    /\ UNCHANGED <<camVars, cfgVars, lpc, ctlVars, running, mcounter,
                   scan_dirs, prefixes, restVars>>

\* an investigation setter that does not look at _running
set_investigation_unguarded(v) ==
    /\ connected
    /\ IF v = None \/ ~valid_name(v)
       THEN /\ Answered("investigation", v, "raised")
            /\ UNCHANGED <<investigation, experiment>>
       ELSE /\ investigation' = v
            /\ experiment' = None
            /\ Answered("investigation", v, "ok")
    /\ UNCHANGED <<camVars, cfgVars, lpc, mgrVars, ctlVars, prefixes,
                   metaVars, enqVars, dispVars, sinkVars, scan_info>>

\* ManagerBase.investigation setter
set_investigation(v) ==
    /\ connected
    /\ IF v = None \/ running \/ ~valid_name(v)
       THEN /\ Answered("investigation", v, "raised")
            /\ UNCHANGED <<investigation, experiment>>
       ELSE /\ investigation' = v
            /\ experiment' = None
            /\ Answered("investigation", v, "ok")
    /\ UNCHANGED <<camVars, cfgVars, lpc, mgrVars, ctlVars, prefixes,
                   metaVars, enqVars, dispVars, sinkVars, scan_info>>

\* ManagerBase.experiment setter
set_experiment(v) ==
    /\ connected
    /\ IF v = None \/ running \/ investigation = None \/ ~valid_name(v)
       THEN /\ Answered("experiment", v, "raised")
            /\ UNCHANGED experiment
       ELSE /\ experiment' = v
            /\ Answered("experiment", v, "ok")
    /\ UNCHANGED <<camVars, cfgVars, lpc, mgrVars, ctlVars, prefixes,
                   metaVars, enqVars, dispVars, sinkVars, investigation,
                   scan_info>>

call_set_investigation ==
    \E v \in BadNames \cup Investigations : set_investigation(v)
call_set_experiment ==
    \E v \in BadNames \cup Experiments : set_experiment(v)

-----------------------------------------------------------------------------
(* CameraBase: file names *)

EXT_H5 == <<".", "h", "5">>
EXT_TIF == <<".", "t", "i", "f">>

Raised == [ok |-> FALSE, val |-> None]
Returned(v) == [ok |-> TRUE, val |-> v]

\* _build_filename with the extension taken from the format's name
BuildFilenameExt(prefix, path, base, cnt, fmt) ==
    LET p == Format(prefix, cnt) IN
    IF path = None THEN [ok |-> FALSE, val |-> None]
    ELSE IF fmt \in {HDF5, TIFF}
    THEN [ok |-> TRUE, val |-> PathJoin(base, path, p) \o <<".">> \o fmt]
    ELSE [ok |-> FALSE, val |-> None]

\* CameraBase._build_filename with the configuration it reads as parameters.
\* str.format raises no NameError, so the except clause never runs; a path
\* of None makes os.path.join raise TypeError.
BuildFilename(prefix, path, base, cnt, fmt) ==
    LET p == Format(prefix, cnt) IN
    IF path = None THEN Raised
    ELSE IF fmt = HDF5 THEN Returned(PathJoin(base, path, p) \o EXT_H5)
    ELSE IF fmt = TIFF THEN Returned(PathJoin(base, path, p) \o EXT_TIF)
    ELSE Raised

\* self._build_filename(prefix, path) with counter cnt
build_filename(prefix, path, cnt) ==
    BuildFilename(prefix, path, base_path, cnt, file_format)

-----------------------------------------------------------------------------
(* The caller's thread *)

\* the acquisition loop thread exists and has not ended
loop_alive == lpc \notin {"none", "exited"}

NoCmd == [op |-> "none", t |-> NoNumber, n |-> NoNumber, fps |-> NoNumber]
NoArgs == <<NoNumber, NoNumber>>

\* armed flag, rolling flag, acquisition thread running
Lifecycle == <<armed, rolling, loop_alive>>

NoChain == [run |-> "none", pre |-> <<FALSE, FALSE, FALSE>>]

\* how the run of commands arm, disarm, disarm stands once the command in
\* progress has returned with result res; an arm() that armed the camera
\* starts a run, and the run remembers the Lifecycle that arm() found
NextChain(res) ==
    IF cmd.op = "arm" /\ res = "ok" THEN [run |-> "arm", pre |-> Lifecycle]
    ELSE IF cmd.op = "disarm" /\ res = "ok" /\ chain.run = "arm"
         THEN [chain EXCEPT !.run = "arm_disarm"]
    ELSE IF cmd.op = "disarm" /\ res = "ok" /\ chain.run = "arm_disarm"
         THEN [chain EXCEPT !.run = "arm_disarm_disarm"]
    ELSE NoChain

\* the caller's thread moves on inside the command
Step(l, stk, args, e) ==
    /\ cpc' = l
    /\ cstack' = stk
    /\ arm_args' = args
    /\ ev' = e
    /\ UNCHANGED <<cmd, cres, chain, trig, enqueued>>

Goto(l) == Step(l, cstack, arm_args, ev)

\* the command is over with result res, which the proxy has yet to hand
\* to the caller
Done(res, ch) ==
    /\ cpc' = "returned"
    /\ cstack' = <<>>
    /\ arm_args' = NoArgs
    /\ cres' = res
    /\ chain' = ch
    /\ UNCHANGED <<cmd, ev, trig, enqueued>>

\* the caller has the result, and the history of the command is dropped
reply ==
    /\ cpc = "returned"
    /\ cpc' = "idle"
    /\ cmd' = NoCmd
    /\ ev' = {}
    /\ cres' = "none"
    /\ trig' = "none"
    /\ enqueued' = 0
    /\ UNCHANGED <<cstack, arm_args, chain>>
    /\ UNCHANGED <<camVars, cfgVars, lpc, mgrVars, prefixes, restVars>>

\* a return statement: back to the calling method, or the command is over
Return(res) ==
    IF cstack = <<>> THEN Done(res, NextChain(res))
    ELSE Step(Head(cstack), Tail(cstack), arm_args, ev)

\* an exception no method catches: the command ends with it
Raise == Done("raised", NoChain)

\* a command arrives (the proxy serves one call of these at a time); the
\* guards keep the counters within the model's bounds
Call(op, t, n, fps) ==
    /\ cpc = "idle"
    /\ op = "snap" => (counter < MaxCounter /\ mcounter < MaxPrefixes)
    /\ cpc' = op
    /\ cmd' = [op |-> op, t |-> t, n |-> n, fps |-> fps]
    /\ cres' = "running"
    /\ arm_args' = IF op = "arm" THEN <<t, n>> ELSE arm_args
    /\ UNCHANGED <<cstack, ev, chain, trig, enqueued>>
    /\ UNCHANGED <<camVars, cfgVars, lpc, mgrVars, prefixes, restVars>>

call_snap == \E a \in ExpArgs : Call("snap", a[1], a[2], NoNumber)
call_arm == \E a \in ExpArgs : Call("arm", a[1], a[2], NoNumber)
\* arm(exp_time, exp_num) with any numbers, zero included: arm() assigns
\* whatever is not None
ExpArgsAny == ExpArgs \cup {<<0, 0>>}
call_arm_any == \E a \in ExpArgsAny : Call("arm", a[1], a[2], NoNumber)
call_disarm == Call("disarm", NoNumber, NoNumber, NoNumber)
call_roll_on == \E f \in FpsArgs : Call("roll_on", NoNumber, NoNumber, f)
\* roll_on() with no fps: the stored roll_fps is used
call_roll_on_stored == Call("roll_on", NoNumber, NoNumber, NoNumber)
call_roll_off == Call("roll_off", NoNumber, NoNumber, NoNumber)
call_abort == Call("abort", NoNumber, NoNumber, NoNumber)

\* a snap() that raises on a rolling camera
snap_raising ==
    /\ cpc = "snap"
    /\ IF rolling
       THEN /\ Raise
            /\ UNCHANGED auto_armed
       ELSE IF ~man_ok
       THEN /\ Return("refused")
            /\ UNCHANGED auto_armed
       ELSE /\ auto_armed' = ~armed
            /\ IF ~armed
               THEN Step("arm", <<"snap_name">> \o cstack, <<cmd.t, cmd.n>>, ev)
               ELSE Goto("snap_name")
    /\ UNCHANGED <<armed, rolling, filename, end_acquisition, scan_path,
                   abort_flag, stop_rolling_flag, exposure_time_before_roll,
                   exposure_number_before_roll, do_acquire, acquire_done,
                   exposure_time, exposure_number, cfgVars, lpc, mgrVars,
                   prefixes, restVars>>

\* a snap() that sets auto_armed before its early returns
snap_marking_first ==
    /\ cpc = "snap"
    /\ auto_armed' = ~armed
    /\ IF rolling \/ ~man_ok
       THEN Return("refused")
       ELSE IF ~armed
            THEN Step("arm", <<"snap_name">> \o cstack, <<cmd.t, cmd.n>>, ev)
            ELSE Goto("snap_name")
    /\ UNCHANGED <<armed, rolling, filename, end_acquisition, scan_path,
                   abort_flag, stop_rolling_flag, exposure_time_before_roll,
                   exposure_number_before_roll, do_acquire, acquire_done,
                   exposure_time, exposure_number, cfgVars, lpc, mgrVars,
                   prefixes, restVars>>

\* snap(), lines 221-236: the early returns, then auto-arming
snap ==
    /\ cpc = "snap"
    /\ IF rolling \/ ~man_ok
       THEN /\ Return("refused")
            /\ UNCHANGED auto_armed
       ELSE /\ auto_armed' = ~armed
            /\ IF ~armed
               THEN Step("arm", <<"snap_name">> \o cstack, <<cmd.t, cmd.n>>, ev)
               ELSE Goto("snap_name")
    /\ UNCHANGED <<armed, rolling, filename, end_acquisition, scan_path,
                   abort_flag, stop_rolling_flag, exposure_time_before_roll,
                   exposure_number_before_roll, do_acquire, acquire_done,
                   exposure_time, exposure_number, cfgVars, lpc, mgrVars,
                   prefixes, restVars>>

\* a snap() that counts inside a scan as well
snap_name_counting_always ==
    /\ cpc = "snap_name"
    /\ counter' = counter + 1
    /\ IF in_scan
       THEN /\ Goto("snap_prefix")
            /\ UNCHANGED <<filename, do_acquire>>
       ELSE LET f == build_filename(file_prefix, save_path, counter + 1) IN
            /\ IF f.ok
               THEN /\ filename' = f.val
                    /\ do_acquire' = TRUE
                    /\ Goto("snap_wait")
               ELSE /\ Raise
                    /\ UNCHANGED <<filename, do_acquire>>
    /\ UNCHANGED <<armed, rolling, auto_armed, end_acquisition, scan_path,
                   abort_flag, stop_rolling_flag, exposure_time_before_roll,
                   exposure_number_before_roll, acquire_done, exposure_time,
                   exposure_number, file_format, save_mode, file_prefix,
                   save_path, roll_fps, do_broadcast, base_path, fw_mode,
                   lpc, mgrVars, prefixes, restVars>>

\* snap(), lines 241-251 outside a scan: count, build the name, ask the loop
\* for a trigger; inside a scan the prefix is fetched in the next step
snap_name ==
    /\ cpc = "snap_name"
    /\ IF in_scan
       THEN /\ Goto("snap_prefix")
            /\ UNCHANGED <<counter, filename, do_acquire>>
       ELSE LET f == build_filename(file_prefix, save_path, counter + 1) IN
            /\ counter' = counter + 1
            /\ IF f.ok
               THEN /\ filename' = f.val
                    /\ do_acquire' = TRUE
                    /\ Goto("snap_wait")
               ELSE /\ Raise
                    /\ UNCHANGED <<filename, do_acquire>>
    /\ UNCHANGED <<armed, rolling, auto_armed, end_acquisition, scan_path,
                   abort_flag, stop_rolling_flag, exposure_time_before_roll,
                   exposure_number_before_roll, acquire_done, exposure_time,
                   exposure_number, file_format, save_mode, file_prefix,
                   save_path, roll_fps, do_broadcast, base_path, fw_mode,
                   lpc, mgrVars, prefixes, restVars>>

\* next_prefix without line 258
next_prefix_stale == [prefix |-> Format(BaseFileName(scan_number), mcounter),
                      counter |-> mcounter]

\* ManagerBase.next_prefix: the prefix returned and the counter left behind
next_prefix == [prefix |-> Format(BaseFileName(scan_number), mcounter),
                counter |-> mcounter + 1]

\* snap(), lines 242-251 inside a scan: man.next_prefix() raises when the
\* manager is gone or no scan runs any more
snap_prefix ==
    /\ cpc = "snap_prefix"
    /\ IF ~(connected /\ running)
       THEN /\ Raise
            /\ UNCHANGED <<mcounter, filename, do_acquire, prefixes>>
       ELSE LET np == next_prefix
                f == build_filename(np.prefix, scan_path, counter) IN
            /\ mcounter' = np.counter
            /\ prefixes' = Append(prefixes,
                                  [k |-> mcounter, prefix |-> np.prefix,
                                   file |-> f.val])
            /\ IF f.ok
               THEN /\ filename' = f.val
                    /\ do_acquire' = TRUE
                    /\ Goto("snap_wait")
               ELSE /\ Raise
                    /\ UNCHANGED <<filename, do_acquire>>
    /\ UNCHANGED <<armed, rolling, auto_armed, end_acquisition, scan_path,
                   abort_flag, stop_rolling_flag, exposure_time_before_roll,
                   exposure_number_before_roll, acquire_done, exposure_time,
                   exposure_number, cfgVars, lpc, connected, running,
                   scan_number, scan_dirs, restVars>>

\* snap() without line 256: acquire_done is left set
snap_wait_noclear ==
    /\ cpc = "snap_wait"
    /\ acquire_done
    /\ IF auto_armed THEN Goto("disarm") ELSE Return("ok")
    /\ UNCHANGED <<camVars, cfgVars, lpc, mgrVars, prefixes, restVars>>

\* snap(), lines 254-262: wait for acquire_done, clear it, disarm if auto-armed
snap_wait ==
    /\ cpc = "snap_wait"
    /\ acquire_done
    /\ acquire_done' = FALSE
    /\ IF auto_armed THEN Goto("disarm") ELSE Return("ok")
    /\ UNCHANGED <<armed, rolling, auto_armed, filename, end_acquisition,
                   scan_path, abort_flag, stop_rolling_flag,
                   exposure_time_before_roll, exposure_number_before_roll,
                   do_acquire, exposure_time, exposure_number, cfgVars, lpc,
                   mgrVars, prefixes, restVars>>

\* an arm() that applies the exposure arguments before it checks rolling
arm_overrides_first ==
    /\ cpc = "arm"
    /\ IF armed /\ ~rolling
       THEN /\ Return("noop")
            /\ UNCHANGED <<armed, end_acquisition, scan_path, do_acquire,
                           acquire_done, exposure_time, exposure_number, lpc>>
       ELSE /\ exposure_time' =
                   IF arm_args[1] # NoNumber THEN arm_args[1] ELSE exposure_time
            /\ exposure_number' =
                   IF arm_args[2] # NoNumber THEN arm_args[2] ELSE exposure_number
            /\ IF rolling
               THEN /\ Raise
                    /\ UNCHANGED <<armed, end_acquisition, scan_path,
                                   do_acquire, acquire_done, lpc>>
               ELSE /\ end_acquisition' = FALSE
                    /\ acquire_done' = FALSE
                    /\ do_acquire' = FALSE
                    /\ scan_path' = IF ~man_ok THEN None ELSE mgr_scan_path
                    /\ lpc' = "start"
                    /\ armed' = TRUE
                    /\ IF cstack = <<>> THEN Done("ok", NextChain("ok"))
                       ELSE Step(Head(cstack), Tail(cstack), arm_args,
                                 ev \cup {"arm"})
    /\ UNCHANGED <<rolling, auto_armed, filename, abort_flag, stop_rolling_flag,
                   exposure_time_before_roll, exposure_number_before_roll,
                   cfgVars, mgrVars, prefixes, restVars>>

\* arm(): nothing else runs between its first line and its last that reads
\* what it writes, the thread it starts included
arm ==
    /\ cpc = "arm"
    /\ IF rolling
       THEN /\ Raise
            /\ UNCHANGED <<armed, end_acquisition, scan_path, do_acquire,
                           acquire_done, exposure_time, exposure_number, lpc>>
       ELSE IF armed
       THEN /\ Return("noop")
            /\ UNCHANGED <<armed, end_acquisition, scan_path, do_acquire,
                           acquire_done, exposure_time, exposure_number, lpc>>
       ELSE /\ exposure_time' =
                   IF arm_args[1] # NoNumber THEN arm_args[1] ELSE exposure_time
            /\ exposure_number' =
                   IF arm_args[2] # NoNumber THEN arm_args[2] ELSE exposure_number
            /\ end_acquisition' = FALSE
            /\ acquire_done' = FALSE
            /\ do_acquire' = FALSE
            /\ scan_path' = IF ~man_ok THEN None ELSE mgr_scan_path
            /\ lpc' = "start"
            /\ armed' = TRUE
            /\ IF cstack = <<>> THEN Done("ok", NextChain("ok"))
               ELSE Step(Head(cstack), Tail(cstack), arm_args,
                         ev \cup {"arm"})
    /\ UNCHANGED <<rolling, auto_armed, filename, abort_flag, stop_rolling_flag,
                   exposure_time_before_roll, exposure_number_before_roll,
                   cfgVars, mgrVars, prefixes, restVars>>

\* a disarm() that delegates to roll_off whenever the camera is rolling
disarm_always_delegating ==
    /\ cpc = "disarm"
    /\ IF rolling
       THEN /\ Goto("roll_off")
            /\ UNCHANGED end_acquisition
       ELSE /\ Goto("disarm_join")
            /\ end_acquisition' = TRUE
    /\ UNCHANGED <<armed, rolling, auto_armed, filename, scan_path, abort_flag,
                   stop_rolling_flag, exposure_time_before_roll,
                   exposure_number_before_roll, do_acquire, acquire_done,
                   exposure_time, exposure_number, cfgVars, lpc, mgrVars,
                   prefixes, restVars>>

\* disarm(), lines 568-577
disarm ==
    /\ cpc = "disarm"
    /\ IF rolling /\ ~stop_rolling_flag
       THEN /\ Goto("roll_off")
            /\ UNCHANGED end_acquisition
       ELSE /\ Goto("disarm_join")
            /\ end_acquisition' = TRUE
    /\ UNCHANGED <<armed, rolling, auto_armed, filename, scan_path, abort_flag,
                   stop_rolling_flag, exposure_time_before_roll,
                   exposure_number_before_roll, do_acquire, acquire_done,
                   exposure_time, exposure_number, cfgVars, lpc, mgrVars,
                   prefixes, restVars>>

\* disarm() without the join of lines 579-582
disarm_nojoin ==
    /\ cpc = "disarm_join"
    /\ armed' = FALSE
    /\ IF cstack = <<>> THEN Done("ok", NextChain("ok"))
       ELSE Step(Head(cstack), Tail(cstack), arm_args, ev \cup {"disarm"})
    /\ UNCHANGED <<rolling, auto_armed, filename, end_acquisition, scan_path,
                   abort_flag, stop_rolling_flag, exposure_time_before_roll,
                   exposure_number_before_roll, do_acquire, acquire_done,
                   exposure_time, exposure_number, cfgVars, lpc, mgrVars,
                   prefixes, restVars>>

\* disarm(), lines 579-588: join blocks until the loop thread has ended
\* (loop_future None raises the AttributeError that is caught)
disarm_join ==
    /\ cpc = "disarm_join"
    /\ ~loop_alive
    /\ armed' = FALSE
    /\ IF cstack = <<>> THEN Done("ok", NextChain("ok"))
       ELSE Step(Head(cstack), Tail(cstack), arm_args, ev \cup {"disarm"})
    /\ UNCHANGED <<rolling, auto_armed, filename, end_acquisition, scan_path,
                   abort_flag, stop_rolling_flag, exposure_time_before_roll,
                   exposure_number_before_roll, do_acquire, acquire_done,
                   exposure_time, exposure_number, cfgVars, lpc, mgrVars,
                   prefixes, restVars>>

\* 1/fps of the fps the roll_fps setter would store
TimePerFrameClamped(fps) == 1000 \div (IF fps > MAX_FPS THEN MAX_FPS ELSE fps)

\* 1./fps in ms
TimePerFrame(fps) == 1000 \div fps

Abs(x) == IF x < 0 THEN -x ELSE x

\* roll_on's test with no tolerance
SameFpsExact(fps) == exposure_time = TimePerFrame(fps)

\* roll_on's test abs(self.exposure_time - 1/fps) < .01
SameFps(fps) == Abs(exposure_time - TimePerFrame(fps)) < ROLL_TOLERANCE

\* the roll_fps setter: the value stored for fps
ClampFps(fps) == IF fps > MAX_FPS THEN MAX_FPS ELSE fps

\* roll_on(), lines 595-632
roll_on ==
    /\ cpc = "roll_on"
    /\ stop_rolling_flag' = FALSE
    /\ IF rolling
       THEN /\ IF cmd.fps # NoNumber /\ ~SameFps(cmd.fps)
               THEN Step("roll_off", <<"roll_on">> \o cstack, arm_args,
                         ev \cup {"restart"})
               ELSE Return("ok")
            /\ UNCHANGED <<roll_fps, do_broadcast, filename,
                           exposure_time_before_roll,
                           exposure_number_before_roll, exposure_time,
                           exposure_number>>
       ELSE LET fps == IF cmd.fps = NoNumber THEN roll_fps ELSE cmd.fps IN
            /\ roll_fps' = IF cmd.fps = NoNumber THEN roll_fps
                           ELSE ClampFps(cmd.fps)
            /\ do_broadcast' = TRUE
            /\ filename' = None
            /\ exposure_time_before_roll' = exposure_time
            /\ exposure_time' = TimePerFrame(fps)
            /\ exposure_number_before_roll' = exposure_number
            /\ exposure_number' = ROLL_EXPOSURE_NUMBER
            /\ IF ~armed
               THEN Step("arm", <<"roll_on_rolling">> \o cstack, NoArgs, ev)
               ELSE Goto("roll_on_rolling")
    /\ UNCHANGED <<armed, rolling, auto_armed, end_acquisition, scan_path,
                   abort_flag, do_acquire, acquire_done, file_format, save_mode,
                   file_prefix, save_path, counter, base_path, fw_mode,
                   lpc, mgrVars, prefixes, restVars>>

\* roll_on(), line 634
roll_on_rolling ==
    /\ cpc = "roll_on_rolling"
    /\ rolling' = TRUE
    /\ Goto("roll_on_trigger")
    /\ UNCHANGED <<armed, auto_armed, filename, end_acquisition, scan_path,
                   abort_flag, stop_rolling_flag, exposure_time_before_roll,
                   exposure_number_before_roll, do_acquire, acquire_done,
                   exposure_time, exposure_number, cfgVars, lpc, mgrVars,
                   prefixes, restVars>>

\* roll_on(), line 637
roll_on_trigger ==
    /\ cpc = "roll_on_trigger"
    /\ do_acquire' = TRUE
    /\ Return("ok")
    /\ UNCHANGED <<armed, rolling, auto_armed, filename, end_acquisition,
                   scan_path, abort_flag, stop_rolling_flag,
                   exposure_time_before_roll, exposure_number_before_roll,
                   acquire_done, exposure_time, exposure_number, cfgVars,
                   lpc, mgrVars, prefixes, restVars>>

\* roll_off(), lines 646-653
roll_off ==
    /\ cpc = "roll_off"
    /\ IF ~rolling
       THEN /\ Return("ok")
            /\ UNCHANGED stop_rolling_flag
       ELSE /\ stop_rolling_flag' = TRUE
            /\ Step("disarm", <<"roll_off_end">> \o cstack, arm_args, ev)
    /\ UNCHANGED <<armed, rolling, auto_armed, filename, end_acquisition,
                   scan_path, abort_flag, exposure_time_before_roll,
                   exposure_number_before_roll, do_acquire, acquire_done,
                   exposure_time, exposure_number, cfgVars, lpc, mgrVars,
                   prefixes, restVars>>

\* roll_off(), lines 656-664: a saved value of None (or 0) is not restored
roll_off_end ==
    /\ cpc = "roll_off_end"
    /\ rolling' = FALSE
    /\ exposure_time' = IF exposure_time_before_roll \notin {NoNumber, 0}
                        THEN exposure_time_before_roll ELSE exposure_time
    /\ exposure_number' = IF exposure_number_before_roll \notin {NoNumber, 0}
                          THEN exposure_number_before_roll ELSE exposure_number
    /\ Return("ok")
    /\ UNCHANGED <<armed, auto_armed, filename, end_acquisition, scan_path,
                   abort_flag, stop_rolling_flag, exposure_time_before_roll,
                   exposure_number_before_roll, do_acquire, acquire_done,
                   cfgVars, lpc, mgrVars, prefixes, restVars>>

\* abort() without lines 275-278
abort_flag_only ==
    /\ cpc = "abort"
    /\ abort_flag' = TRUE
    /\ Return("ok")
    /\ UNCHANGED <<armed, rolling, auto_armed, filename, end_acquisition,
                   scan_path, stop_rolling_flag, exposure_time_before_roll,
                   exposure_number_before_roll, do_acquire, acquire_done,
                   exposure_time, exposure_number, cfgVars, lpc, mgrVars,
                   prefixes, restVars>>

\* abort() as a command of its own, lines 264-278
abort ==
    /\ cpc = "abort"
    /\ abort_flag' = TRUE
    /\ IF rolling THEN Goto("roll_off") ELSE Return("ok")
    /\ UNCHANGED <<armed, rolling, auto_armed, filename, end_acquisition,
                   scan_path, stop_rolling_flag, exposure_time_before_roll,
                   exposure_number_before_roll, do_acquire, acquire_done,
                   exposure_time, exposure_number, cfgVars, lpc, mgrVars,
                   prefixes, restVars>>

\* abort() interrupting a snap() in progress (proxycall interrupt=True while
\* the block=False call runs): the camera is not rolling then, so the flag
\* is all it touches
abort_interrupt ==
    /\ cmd.op = "snap"
    /\ cpc \notin {"snap", "returned"}
    /\ ~rolling
    /\ ~abort_flag
    /\ abort_flag' = TRUE
    /\ UNCHANGED <<armed, rolling, auto_armed, filename, end_acquisition,
                   scan_path, stop_rolling_flag, exposure_time_before_roll,
                   exposure_number_before_roll, do_acquire, acquire_done,
                   exposure_time, exposure_number, cfgVars, lpc, mgrVars,
                   ctlVars, prefixes, restVars>>

-----------------------------------------------------------------------------
(* The acquisition loop thread, CameraBase.acquisition_loop *)

\* enqueue_frame called once by the device trigger: one more frame queued
\* (counted up to 2, which stands for "two or more")
Enqueue(n) == IF n < 2 THEN n + 1 ELSE n

\* lines 286-287: the thread starts and clears the abort flag
loop_start ==
    /\ lpc = "start"
    /\ abort_flag' = FALSE
    /\ lpc' = "wait"
    /\ UNCHANGED <<armed, rolling, auto_armed, filename, end_acquisition,
                   scan_path, stop_rolling_flag, exposure_time_before_roll,
                   exposure_number_before_roll, do_acquire, acquire_done,
                   exposure_time, exposure_number, cfgVars, mgrVars, ctlVars,
                   prefixes, restVars>>

\* an acquisition loop that sets acquire_done before it calls the trigger
loop_wait_trigger_done_first ==
    /\ lpc = "wait"
    /\ do_acquire
    /\ do_acquire' = FALSE
    /\ opened' = ~rolling
    /\ acquire_done' = TRUE
    /\ lpc' = "trigger"
    /\ UNCHANGED <<armed, rolling, auto_armed, filename, end_acquisition,
                   scan_path, abort_flag, stop_rolling_flag,
                   exposure_time_before_roll, exposure_number_before_roll,
                   exposure_time, exposure_number, cfgVars,
                   mgrVars, ctlVars, prefixes, idleVars, fw_stopped,
                   fs_stopped>>

\* lines 291, 296-303: do_acquire.wait() returns True; the flag is cleared,
\* the file writer is asked to open the file unless the camera is rolling,
\* and the device trigger is called
loop_wait_trigger ==
    /\ lpc = "wait"
    /\ do_acquire
    /\ do_acquire' = FALSE
    /\ opened' = ~rolling
    /\ lpc' = "trigger"
    /\ UNCHANGED <<armed, rolling, auto_armed, filename, end_acquisition,
                   scan_path, abort_flag, stop_rolling_flag,
                   exposure_time_before_roll, exposure_number_before_roll,
                   acquire_done, exposure_time, exposure_number, cfgVars,
                   mgrVars, ctlVars, prefixes, idleVars, fw_stopped,
                   fs_stopped>>

\* lines 291-295: do_acquire.wait(.2) times out, and the loop ends if
\* end_acquisition is set
loop_wait_timeout ==
    /\ lpc = "wait"
    /\ ~do_acquire
    /\ lpc' = IF end_acquisition THEN "exited" ELSE "wait"
    /\ UNCHANGED <<camVars, cfgVars, mgrVars, ctlVars, prefixes, restVars>>

\* the history of the snap() in progress, if any, after a device trigger
Triggered(outcome) ==
    IF cmd.op = "snap" /\ cpc # "returned"
    THEN /\ trig' = outcome
         /\ enqueued' = IF outcome = "ok" THEN Enqueue(enqueued) ELSE enqueued
    ELSE UNCHANGED <<trig, enqueued>>

\* lines 308, 328: the device trigger returns, having enqueued one frame,
\* and acquire_done is set
loop_trigger_ok ==
    /\ lpc = "trigger"
    /\ Triggered("ok")
    /\ acquire_done' = TRUE
    /\ lpc' = "post"
    /\ UNCHANGED <<armed, rolling, auto_armed, filename, end_acquisition,
                   scan_path, abort_flag, stop_rolling_flag,
                   exposure_time_before_roll, exposure_number_before_roll,
                   do_acquire, exposure_time, exposure_number, cfgVars,
                   mgrVars, cpc, cstack, arm_args, cmd, ev, cres, chain,
                   prefixes, restVars>>

\* lines 309-311: the device trigger raises, and acquire_done is set
loop_trigger_fail ==
    /\ lpc = "trigger"
    /\ Triggered("fail")
    /\ acquire_done' = TRUE
    /\ lpc' = "failed"
    /\ UNCHANGED <<armed, rolling, auto_armed, filename, end_acquisition,
                   scan_path, abort_flag, stop_rolling_flag,
                   exposure_time_before_roll, exposure_number_before_roll,
                   do_acquire, exposure_time, exposure_number, cfgVars,
                   mgrVars, cpc, cstack, arm_args, cmd, ev, cres, chain,
                   prefixes, restVars>>

\* the file writer is asked to close the file of this pass: lines 314 and
\* 341 are reached with the camera not rolling
closes == lpc \in {"post", "failed"} /\ ~rolling

\* lines 330-348 after a trigger that returned; off the rolling path the
\* file writer is asked to close the file, and the pass is over
loop_post ==
    /\ lpc = "post"
    /\ IF rolling
       THEN IF stop_rolling_flag
            THEN /\ lpc' = "exited"
                 /\ UNCHANGED do_acquire
            ELSE /\ do_acquire' = TRUE
                 /\ lpc' = "wait"
       ELSE /\ lpc' = IF auto_armed THEN "exited" ELSE "wait"
            /\ UNCHANGED do_acquire
    /\ opened' = FALSE
    /\ UNCHANGED <<armed, rolling, auto_armed, filename, end_acquisition,
                   scan_path, abort_flag, stop_rolling_flag,
                   exposure_time_before_roll, exposure_number_before_roll,
                   acquire_done, exposure_time, exposure_number, cfgVars,
                   mgrVars, ctlVars, prefixes, idleVars, fw_stopped,
                   fs_stopped>>

\* lines 312-317 after a trigger that raised.  When rolling the loop thread
\* runs roll_off() itself: that sets stop_rolling_flag, and its disarm() sets
\* end_acquisition and joins the thread it runs on.  The join is a blocking
\* wait with no timeout: either it is refused with an error that ends the
\* thread, or the thread waits for itself for ever ("stuck").
loop_failed ==
    /\ lpc = "failed"
    /\ IF rolling
       THEN /\ stop_rolling_flag' = TRUE
            /\ end_acquisition' = TRUE
            /\ lpc' \in {"exited", "stuck"}
       ELSE /\ lpc' = "exited"
            /\ UNCHANGED <<stop_rolling_flag, end_acquisition>>
    /\ opened' = FALSE
    /\ UNCHANGED <<armed, rolling, auto_armed, filename, scan_path, abort_flag,
                   exposure_time_before_roll, exposure_number_before_roll,
                   do_acquire, acquire_done, exposure_time, exposure_number,
                   cfgVars, mgrVars, ctlVars, prefixes, idleVars, fw_stopped,
                   fs_stopped>>

-----------------------------------------------------------------------------
(* Configuration properties set on an idle camera *)

\* values given to the save_mode setter
ModeArgs == {RAM, <<"R", "A", "M">>, APPEND, SINGLE,
             <<"b", "o", "g", "u", "s">>, HDF5}
\* values given to the file_format setter
FormatArgs == {<<"h", "5">>, <<"h", "d", "f">>, HDF5, <<"H", "D", "F", "5">>,
               <<"t", "i", "f">>, TIFF, <<"T", "I", "F">>, <<"r", "a", "w">>,
               RAM}
\* values given to the roll_fps setter
RollFpsArgs == {2, 100}

\* a property setter or a one-line command has run and ended with res
Served(op, fps, res) ==
    /\ cpc = "idle"
    /\ cpc' = "returned"
    /\ cmd' = [NoCmd EXCEPT !.op = op, !.fps = fps]
    /\ cres' = res
    /\ chain' = NoChain
    /\ UNCHANGED <<cstack, arm_args, ev, trig, enqueued>>

\* the save_mode setter storing the mode before it checks it
set_save_mode_unchecked(mode) ==
    LET m == Lower(mode) IN
    /\ save_mode' = m
    /\ fw_mode' = m
    /\ Served("save_mode", NoNumber,
              IF m \notin {RAM, APPEND, SINGLE} THEN "raised" ELSE "ok")
    /\ UNCHANGED <<camVars, file_format, file_prefix, save_path, counter,
                   roll_fps, do_broadcast, base_path, lpc, mgrVars, prefixes, restVars>>

\* the save_mode setter, lines 500-506
set_save_mode(mode) ==
    LET m == Lower(mode) IN
    /\ IF m \notin {RAM, APPEND, SINGLE}
       THEN /\ Served("save_mode", NoNumber, "raised")
            /\ UNCHANGED <<save_mode, fw_mode>>
       ELSE /\ save_mode' = m
            /\ fw_mode' = m
            /\ Served("save_mode", NoNumber, "ok")
    /\ UNCHANGED <<camVars, file_format, file_prefix, save_path, counter,
                   roll_fps, do_broadcast, base_path, lpc, mgrVars, prefixes, restVars>>

\* the file_format setter storing the alias it was given
set_file_format_alias(value) ==
    LET v == Lower(value) IN
    /\ IF v \in {<<"h", "5">>, <<"h", "d", "f">>, <<"h", "d", "f", "5">>,
                 <<"t", "i", "f">>, <<"t", "i", "f", "f">>}
       THEN /\ file_format' = v
            /\ Served("file_format", NoNumber, "ok")
       ELSE /\ Served("file_format", NoNumber, "raised")
            /\ UNCHANGED file_format
    /\ UNCHANGED <<camVars, save_mode, file_prefix, save_path, counter,
                   roll_fps, do_broadcast, base_path, fw_mode, lpc, mgrVars,
                   prefixes, restVars>>

\* the file_format setter, lines 792-799
set_file_format(value) ==
    LET v == Lower(value) IN
    /\ IF v \in {<<"h", "5">>, <<"h", "d", "f">>, <<"h", "d", "f", "5">>}
       THEN /\ file_format' = HDF5
            /\ Served("file_format", NoNumber, "ok")
       ELSE IF v \in {<<"t", "i", "f">>, <<"t", "i", "f", "f">>}
       THEN /\ file_format' = TIFF
            /\ Served("file_format", NoNumber, "ok")
       ELSE /\ Served("file_format", NoNumber, "raised")
            /\ UNCHANGED file_format
    /\ UNCHANGED <<camVars, save_mode, file_prefix, save_path, counter,
                   roll_fps, do_broadcast, base_path, fw_mode, lpc, mgrVars,
                   prefixes, restVars>>

\* reset_counter(value), lines 666-671
reset_counter(value) ==
    /\ counter' = value
    /\ Served("reset_counter", NoNumber, "ok")
    /\ UNCHANGED <<camVars, file_format, save_mode, file_prefix, save_path,
                   roll_fps, do_broadcast, base_path, fw_mode, lpc, mgrVars,
                   prefixes, restVars>>

\* the roll_fps setter, lines 930-938: with the camera rolling it goes on
\* into roll_on(fps) with the clamped value
set_roll_fps(value) ==
    /\ cpc = "idle"
    /\ roll_fps' = ClampFps(value)
    /\ IF rolling
       THEN /\ cpc' = "roll_on"
            /\ cmd' = [NoCmd EXCEPT !.op = "roll_fps", !.fps = ClampFps(value)]
            /\ cres' = "running"
            /\ UNCHANGED <<cstack, arm_args, ev, chain, trig, enqueued>>
       ELSE Served("roll_fps", ClampFps(value), "ok")
    /\ UNCHANGED <<camVars, file_format, save_mode, file_prefix, save_path,
                   counter, do_broadcast, base_path, fw_mode, lpc, mgrVars,
                   prefixes, restVars>>

call_set_save_mode == \E v \in ModeArgs : set_save_mode(v)
call_set_file_format == \E v \in FormatArgs : set_file_format(v)
call_reset_counter == \E v \in 0..MaxCounter : reset_counter(v)
call_set_roll_fps == \E v \in RollFpsArgs : set_roll_fps(v)

-----------------------------------------------------------------------------
(* _build_filename over a range of configurations *)

FilePrefixes == {<<"s", "c", "a", "n", "_", "{0}">>, <<"s">>,
                 <<"s", "{0:06d}">>}
SavePaths == {<<"d">>, <<"d", "/", "e">>, <<"/", "a">>, None}
BasePaths == {<<>>, <<"b">>}
Counters == {0, 7, 12}
FileFormats == {HDF5, TIFF, <<"r", "a", "w">>}

\* self.filename = self._build_filename(prefix=self.file_prefix,
\* path=self.save_path), line 246, on its own
call_build_filename ==
    LET f == build_filename(file_prefix, save_path, counter) IN
    /\ filename' = IF f.ok THEN f.val ELSE filename
    /\ Served("_build_filename", NoNumber, IF f.ok THEN "ok" ELSE "raised")
    /\ UNCHANGED <<armed, rolling, auto_armed, end_acquisition, scan_path,
                   abort_flag, stop_rolling_flag, exposure_time_before_roll,
                   exposure_number_before_roll, do_acquire, acquire_done,
                   exposure_time, exposure_number, cfgVars, lpc, mgrVars,
                   prefixes, restVars>>

-----------------------------------------------------------------------------
(* CameraBase: metadata loop and enqueue_frame *)

\* the device's _trigger sets the grab_metadata event: one more request
grab_request ==
    /\ nreq < MaxRequests
    /\ nreq' = nreq + 1
    /\ grab_metadata' = TRUE
    /\ UNCHANGED <<coreVars, heap, localmeta, mpc, mreq, mptr, enqVars,
                   dispVars, mgrCfgVars, sinkVars>>

\* metadata_loop: self.grab_metadata.wait(1), then clear(); a wait that
\* times out returns when closing and waits again otherwise
metadata_loop_wait ==
    /\ mpc = "wait"
    /\ IF grab_metadata
       THEN /\ grab_metadata' = FALSE
            /\ mreq' = nreq
            /\ mpc' = "get_meta"
       ELSE /\ closing
            /\ mpc' = "exited"
            /\ UNCHANGED <<grab_metadata, mreq>>
    /\ UNCHANGED <<coreVars, heap, localmeta, mptr, nreq, enqVars, dispVars,
                   mgrCfgVars, sinkVars>>

\* a get_meta that fills the dict d it is given with the device fields of
\* the request r, and returns d
get_meta_inplace(d, r) ==
    [heap |-> [heap EXCEPT ![d].fields = r], ref |-> d]

\* get_meta(), called while self.localmeta is d: a new dict with the device
\* fields of the request r; the dict d is left as it is
get_meta(d, r) ==
    [heap |-> Append(heap, [fields |-> r, start |-> 0]),
     ref |-> Len(heap) + 1]

\* self.localmeta = self.get_meta()
metadata_loop_get_meta ==
    /\ mpc = "get_meta"
    /\ heap' = get_meta(localmeta, mreq).heap
    /\ localmeta' = get_meta(localmeta, mreq).ref
    /\ mpc' = "stamp_load"
    /\ UNCHANGED <<coreVars, grab_metadata, mreq, mptr, nreq, enqVars,
                   dispVars, mgrCfgVars, sinkVars>>

\* self.localmeta['acquisition_start'] = now(): the reference is loaded ...
metadata_loop_stamp_load ==
    /\ mpc = "stamp_load"
    /\ mptr' = localmeta
    /\ mpc' = "stamp_store"
    /\ UNCHANGED <<coreVars, heap, localmeta, grab_metadata, mreq, nreq,
                   enqVars, dispVars, mgrCfgVars, sinkVars>>

\* ... and the time of this request is stored into the dict it refers to
metadata_loop_stamp_store ==
    /\ mpc = "stamp_store"
    /\ heap' = [heap EXCEPT ![mptr].start = mreq]
    /\ mptr' = 0
    /\ mpc' = "wait"
    /\ UNCHANGED <<coreVars, localmeta, grab_metadata, mreq, nreq, enqVars,
                   dispVars, mgrCfgVars, sinkVars>>

\* enqueue_lock is held from the with statement to the end of enqueue_frame;
\* enqueue_frame is called by one thread (within _trigger) and nothing else
\* takes the lock
enqueue_lock == tpc # "idle"

\* enqueue_frame: with self.enqueue_lock, frame_queue_empty_flag.clear()
enqueue_frame_lock ==
    /\ tpc = "idle"
    /\ nframes < MaxFrames
    /\ frame_queue_empty_flag' = FALSE
    /\ tpc' = "read"
    /\ UNCHANGED <<coreVars, metaVars, tptr, frame_queue, nframes, dispVars,
                   mgrCfgVars, sinkVars>>

\* metadata = self.metadata; localmeta = self.localmeta
enqueue_frame_read ==
    /\ tpc = "read"
    /\ tptr' = localmeta
    /\ tpc' = "reset"
    /\ UNCHANGED <<coreVars, metaVars, frame_queue, frame_queue_empty_flag,
                   nframes, dispVars, mgrCfgVars, sinkVars>>

\* self.metadata = {}; self.localmeta = {}
enqueue_frame_reset ==
    /\ tpc = "reset"
    /\ heap' = Append(heap, NoMeta)
    /\ localmeta' = Len(heap) + 1
    /\ tpc' = "put"
    /\ UNCHANGED <<coreVars, grab_metadata, mpc, mreq, mptr, nreq, tptr,
                   frame_queue, frame_queue_empty_flag, nframes, dispVars,
                   mgrCfgVars, sinkVars>>

\* localmeta.update(meta); metadata[name] = localmeta;
\* self.frame_queue.put((frame, metadata)), and the lock is released
enqueue_frame_put ==
    /\ tpc = "put"
    /\ frame_queue' = Append(frame_queue,
                             [frame |-> nframes + 1, meta |-> tptr,
                              rolling |-> rolling])
    /\ nframes' = nframes + 1
    /\ tptr' = 0
    /\ tpc' = "idle"
    /\ UNCHANGED <<coreVars, metaVars, frame_queue_empty_flag, dispVars,
                   mgrCfgVars, sinkVars>>

-----------------------------------------------------------------------------
(* CameraBase: frame dispatch loop, broadcast and save settings *)

\* a queue get that takes the item put last
QueueGetLast(q) ==
    [item |-> q[Len(q)], rest |-> SubSeq(q, 1, Len(q) - 1)]

\* SimpleQueue.get on a queue that is not empty
QueueGet(q) == [item |-> Head(q), rest |-> Tail(q)]

\* how a store call of a sink process ends: it returns, or it raises the
\* RuntimeError that the loop expects of the file writer
StoreOutcomes == {"ok", "RuntimeError"}

\* frame_management_loop: item = self.frame_queue.get(timeout=1.); on Empty
\* the empty flag is set and the loop ends when closing
frame_loop_get ==
    /\ fpc = "get"
    /\ IF frame_queue # <<>>
       THEN /\ fitem' = QueueGet(frame_queue).item
            /\ frame_queue' = QueueGet(frame_queue).rest
            /\ dispatched' = Append(dispatched, QueueGet(frame_queue).item)
            /\ fpc' = "store"
            /\ UNCHANGED frame_queue_empty_flag
       ELSE /\ frame_queue_empty_flag' = TRUE
            /\ fpc' = IF closing THEN "exited" ELSE "get"
            /\ UNCHANGED <<fitem, frame_queue, dispatched>>
    /\ UNCHANGED <<coreVars, metaVars, tpc, tptr, nframes, closing, do_save,
                   stored, streamed, failed, mgrCfgVars, sinkVars>>

\* if not self.rolling: self.file_writer.store(meta=meta, data=data), with
\* except RuntimeError around it: the exception is logged and the loop goes
\* on with the frame
frame_loop_store ==
    /\ fpc = "store"
    /\ IF ~rolling
       THEN \E outcome \in StoreOutcomes :
                /\ stored' = Append(stored, [frame |-> fitem.frame,
                                             save |-> do_save])
       ELSE UNCHANGED stored
    /\ fpc' = "stream"
    /\ UNCHANGED <<coreVars, metaVars, enqVars, closing, do_save, fitem,
                   dispatched, streamed, failed, mgrCfgVars, sinkVars>>

\* if self.config['do_broadcast']: self.frame_streamer.store(meta=meta,
\* data=data), with nothing around it: an exception ends the thread
frame_loop_stream ==
    /\ fpc = "stream"
    /\ IF do_broadcast
       THEN \E outcome \in StoreOutcomes :
                /\ streamed' = Append(streamed, fitem.frame)
                /\ IF outcome = "ok"
                   THEN /\ fpc' = "flag"
                        /\ UNCHANGED failed
                   ELSE /\ fpc' = "dead"
                        /\ failed' = "frame_streamer"
       ELSE /\ fpc' = "flag"
            /\ UNCHANGED <<streamed, failed>>
    /\ UNCHANGED <<coreVars, metaVars, enqVars, closing, do_save, fitem,
                   dispatched, stored, mgrCfgVars, sinkVars>>

\* if self.frame_queue.qsize() == 0: self.frame_queue_empty_flag.set()
frame_loop_flag ==
    /\ fpc = "flag"
    /\ frame_queue_empty_flag' = (frame_queue = <<>> \/ frame_queue_empty_flag)
    /\ fitem' = NoItem
    /\ fpc' = "get"
    /\ UNCHANGED <<coreVars, metaVars, tpc, tptr, frame_queue, nframes,
                   closing, do_save, dispatched, stored, streamed, failed,
                   mgrCfgVars, sinkVars>>

\* live_on(): frame_streamer.on(); config['do_broadcast'] = True
live_on ==
    /\ do_broadcast' = TRUE
    /\ Served("live_on", NoNumber, "ok")
    /\ UNCHANGED <<camVars, file_format, save_mode, file_prefix, save_path,
                   counter, roll_fps, base_path, fw_mode, lpc, mgrVars,
                   prefixes, restVars>>

\* live_off(): frame_streamer.off(); config['do_broadcast'] = False
live_off ==
    /\ do_broadcast' = FALSE
    /\ Served("live_off", NoNumber, "ok")
    /\ UNCHANGED <<camVars, file_format, save_mode, file_prefix, save_path,
                   counter, roll_fps, base_path, fw_mode, lpc, mgrVars,
                   prefixes, restVars>>

\* the save setter: self.config['do_save'] = bool(value)
set_save(value) ==
    /\ do_save' = value
    /\ Served("save", NoNumber, "ok")
    /\ UNCHANGED <<camVars, cfgVars, lpc, mgrVars, prefixes, metaVars,
                   enqVars, closing, fpc, fitem, dispatched, stored, streamed,
                   failed, mgrCfgVars, sinkVars>>

call_set_save == \E value \in BOOLEAN : set_save(value)

\* shutdown(): roll_off() first ...
call_shutdown == Call("shutdown", NoNumber, NoNumber, NoNumber)

\* a shutdown() that does not roll the camera off first
shutdown_without_roll_off ==
    /\ cpc = "shutdown"
    /\ Goto("shutdown_stop_writer")
    /\ UNCHANGED <<camVars, cfgVars, lpc, mgrVars, prefixes, restVars>>

shutdown ==
    /\ cpc = "shutdown"
    /\ Step("roll_off", <<"shutdown_stop_writer">> \o cstack, arm_args, ev)
    /\ UNCHANGED <<camVars, cfgVars, lpc, mgrVars, prefixes, restVars>>

\* ... then self.file_writer.stop() ...
shutdown_stop_writer ==
    /\ cpc = "shutdown_stop_writer"
    /\ fw_stopped' = TRUE
    /\ Goto("shutdown_stop_streamer")
    /\ UNCHANGED <<camVars, cfgVars, lpc, mgrVars, prefixes, idleVars,
                   opened, fs_stopped>>

\* ... then self.frame_streamer.stop() ...
shutdown_stop_streamer ==
    /\ cpc = "shutdown_stop_streamer"
    /\ fs_stopped' = TRUE
    /\ Goto("shutdown_end")
    /\ UNCHANGED <<camVars, cfgVars, lpc, mgrVars, prefixes, idleVars,
                   opened, fw_stopped>>

\* ... and last self.closing = True
shutdown_end ==
    /\ cpc = "shutdown_end"
    /\ closing' = TRUE
    /\ Return("ok")
    /\ UNCHANGED <<camVars, cfgVars, lpc, mgrVars, prefixes, metaVars,
                   enqVars, do_save, fpc, fitem, dispatched, stored, streamed,
                   failed, mgrCfgVars, sinkVars>>

-----------------------------------------------------------------------------
(* The camera with its caller, its loop thread and the manager *)

FILE_PREFIX == <<"s", "{0}">>
SAVE_PATH == <<"d">>

\* CameraBase.__init__ and ManagerBase.__init__ over an empty experiment:
\* everything but the configuration that _build_filename reads
InitState ==
    /\ armed = FALSE /\ rolling = FALSE /\ auto_armed = FALSE
    /\ filename = None /\ end_acquisition = FALSE /\ scan_path = None
    /\ abort_flag = FALSE /\ stop_rolling_flag = FALSE
    /\ exposure_time_before_roll = NoNumber
    /\ exposure_number_before_roll = NoNumber
    /\ do_acquire = FALSE /\ acquire_done = FALSE
    /\ exposure_time = 1000 /\ exposure_number = 1
    /\ save_mode = APPEND
    /\ roll_fps = DEFAULT_FPS /\ do_broadcast = TRUE
    /\ fw_mode = None
    /\ lpc = "none"
    /\ cpc = "idle" /\ cstack = <<>> /\ arm_args = NoArgs
    /\ connected = TRUE /\ running = FALSE /\ mcounter = 0
    /\ scan_number = 0 /\ scan_dirs = [p \in ExperimentPaths |-> 0]
    /\ cmd = NoCmd /\ ev = {} /\ cres = "none"
    /\ trig = "none" /\ enqueued = 0 /\ chain = NoChain
    /\ prefixes = <<>>
    /\ heap = <<NoMeta>> /\ localmeta = 1 /\ grab_metadata = FALSE
    /\ mpc = "wait" /\ mreq = 0 /\ mptr = 0 /\ nreq = 0
    /\ tpc = "idle" /\ tptr = 0
    /\ frame_queue = <<>> /\ frame_queue_empty_flag = FALSE /\ nframes = 0
    /\ closing = FALSE /\ do_save = TRUE
    /\ fpc = "get" /\ fitem = NoItem
    /\ dispatched = <<>> /\ stored = <<>> /\ streamed = <<>>
    /\ failed = "none"
    /\ investigation = INVESTIGATION /\ experiment = EXPERIMENT
    /\ mres = NoCall /\ scan_info = NoScanInfo
    /\ opened = FALSE /\ fw_stopped = FALSE /\ fs_stopped = FALSE

\* LOCAL_DEFAULT_CONFIG with a file prefix and a save path configured
Init ==
    /\ InitState
    /\ file_format = HDF5
    /\ file_prefix = FILE_PREFIX /\ save_path = SAVE_PATH
    /\ counter = 0
    /\ base_path = <<>>

Next ==
    \/ call_snap \/ call_arm \/ call_disarm
    \/ call_roll_on \/ call_roll_off \/ call_abort
    \/ snap \/ snap_name \/ snap_prefix \/ snap_wait
    \/ arm \/ disarm \/ disarm_join
    \/ roll_on \/ roll_on_rolling \/ roll_on_trigger
    \/ roll_off \/ roll_off_end
    \/ abort \/ abort_interrupt
    \/ reply
    \/ loop_start \/ loop_wait_trigger \/ loop_wait_timeout
    \/ loop_trigger_ok \/ loop_trigger_fail \/ loop_post \/ loop_failed
    \/ start_scan \/ end_scan \/ manager_crash \/ manager_restart

Spec == Init /\ [][Next]_vars

\* the configuration setters called in any order on a camera that does
\* nothing else
NextCfg ==
    \/ call_set_save_mode \/ call_set_file_format
    \/ call_reset_counter \/ call_set_roll_fps
    \/ reply

SpecCfg == Init /\ [][NextCfg]_vars

\* the commands of the camera and reset_counter, called in any order
\* between and during the scans of a manager that stays up
NextCount ==
    \/ call_snap \/ call_arm \/ call_disarm
    \/ call_roll_on \/ call_roll_off \/ call_abort
    \/ call_reset_counter
    \/ snap \/ snap_name \/ snap_prefix \/ snap_wait
    \/ arm \/ disarm \/ disarm_join
    \/ roll_on \/ roll_on_rolling \/ roll_on_trigger
    \/ roll_off \/ roll_off_end
    \/ abort \/ abort_interrupt
    \/ reply
    \/ loop_start \/ loop_wait_trigger \/ loop_wait_timeout
    \/ loop_trigger_ok \/ loop_trigger_fail \/ loop_post \/ loop_failed
    \/ start_scan \/ end_scan

SpecCount == Init /\ [][NextCount]_vars

\* _build_filename called under each configuration
InitFile ==
    /\ InitState
    /\ file_format \in FileFormats
    /\ file_prefix \in FilePrefixes /\ save_path \in SavePaths
    /\ counter \in Counters
    /\ base_path \in BasePaths

NextFile == call_build_filename \/ reply

SpecFile == InitFile /\ [][NextFile]_vars

\* the metadata loop next to the thread that calls enqueue_frame, with the
\* device requesting metadata at any moment, until the camera shuts down
NextMeta ==
    \/ grab_request
    \/ metadata_loop_wait \/ metadata_loop_get_meta
    \/ metadata_loop_stamp_load \/ metadata_loop_stamp_store
    \/ enqueue_frame_lock \/ enqueue_frame_read
    \/ enqueue_frame_reset \/ enqueue_frame_put
    \/ call_shutdown \/ shutdown \/ roll_off
    \/ shutdown_stop_writer \/ shutdown_stop_streamer \/ shutdown_end
    \/ reply

SpecMeta == Init /\ [][NextMeta]_vars

\* the thread that calls enqueue_frame next to the dispatch loop, with the
\* broadcast and save settings changed at any moment, until the camera
\* shuts down
NextQueue ==
    \/ enqueue_frame_lock \/ enqueue_frame_read
    \/ enqueue_frame_reset \/ enqueue_frame_put
    \/ frame_loop_get \/ frame_loop_store
    \/ frame_loop_stream \/ frame_loop_flag
    \/ live_on \/ live_off \/ call_set_save
    \/ call_shutdown \/ shutdown \/ roll_off
    \/ shutdown_stop_writer \/ shutdown_stop_streamer \/ shutdown_end
    \/ reply

SpecQueue == Init /\ [][NextQueue]_vars

\* the manager alone: its setters called with any name at any moment,
\* between and during scans
NextMgr ==
    \/ call_set_investigation \/ call_set_experiment
    \/ call_start_scan \/ end_scan

SpecMgr == Init /\ [][NextMgr]_vars

\* a step of the acquisition loop thread whose device trigger returns
LoopStep ==
    \/ loop_start \/ loop_wait_trigger \/ loop_wait_timeout
    \/ loop_trigger_ok \/ loop_post

\* a step of the caller's thread inside arm, disarm, roll_on or roll_off
CallerStep ==
    \/ arm \/ disarm \/ disarm_join
    \/ roll_on \/ roll_on_rolling \/ roll_on_trigger
    \/ roll_off \/ roll_off_end

\* arm, disarm and roll_on called in any order on a camera whose device
\* trigger always returns; both threads keep running
NextRoll ==
    \/ call_arm \/ call_disarm \/ call_roll_on
    \/ CallerStep \/ reply
    \/ LoopStep

SpecRoll ==
    Init /\ [][NextRoll]_vars /\ WF_vars(CallerStep) /\ WF_vars(LoopStep)

\* rolling switched on and off on a camera armed with any exposure
\* settings, the device trigger returning
NextExp ==
    \/ call_arm_any \/ call_disarm \/ call_roll_on \/ call_roll_off
    \/ CallerStep \/ reply
    \/ LoopStep

SpecExp == Init /\ [][NextExp]_vars

\* a camera that is rolled on, fed with frames and shut down at any
\* moment, with its three loop threads
NextShut ==
    \/ call_roll_on_stored \/ call_shutdown
    \/ roll_on \/ roll_on_rolling \/ roll_on_trigger \/ arm
    \/ roll_off \/ disarm \/ disarm_join \/ roll_off_end
    \/ shutdown \/ shutdown_stop_writer \/ shutdown_stop_streamer
    \/ shutdown_end \/ reply
    \/ loop_start \/ loop_wait_trigger \/ loop_wait_timeout
    \/ loop_trigger_ok \/ loop_trigger_fail \/ loop_post \/ loop_failed
    \/ metadata_loop_wait
    \/ enqueue_frame_lock \/ enqueue_frame_read
    \/ enqueue_frame_reset \/ enqueue_frame_put
    \/ frame_loop_get \/ frame_loop_store \/ frame_loop_stream
    \/ frame_loop_flag

SpecShut == Init /\ [][NextShut]_vars

\* _trigger of a camera driver calls enqueue_frame for each frame it reads,
\* on the acquisition thread and before it returns
trigger_enqueue_frame ==
    /\ lpc = "trigger"
    /\ \/ enqueue_frame_lock \/ enqueue_frame_read
       \/ enqueue_frame_reset \/ enqueue_frame_put

\* lines 308, 328: _trigger returns once its enqueue_frame calls have
trigger_returns ==
    /\ tpc = "idle"
    /\ loop_trigger_ok

\* snapshots and rolling with the frames of each trigger put in the queue by
\* the acquisition thread and taken out by the dispatch loop
NextLive ==
    \/ call_snap \/ call_roll_on_stored \/ call_roll_off
    \/ snap \/ snap_name \/ snap_wait
    \/ CallerStep \/ reply
    \/ loop_start \/ loop_wait_trigger \/ loop_wait_timeout \/ loop_post
    \/ trigger_enqueue_frame \/ trigger_returns
    \/ frame_loop_get \/ frame_loop_store \/ frame_loop_stream
    \/ frame_loop_flag

SpecLive == Init /\ [][NextLive]_vars

\* snapshots on a camera armed by snap() or by arm(), with abort() called
\* between two commands
NextAbort ==
    \/ call_arm \/ call_snap \/ call_abort \/ call_disarm
    \/ abort \/ snap \/ snap_name \/ snap_wait
    \/ arm \/ disarm \/ disarm_join \/ reply
    \/ loop_start \/ loop_wait_trigger \/ loop_wait_timeout
    \/ loop_trigger_ok \/ loop_post

SpecAbort == Init /\ [][NextAbort]_vars

\* a step of the caller's thread inside shutdown
ShutdownStep ==
    \/ shutdown \/ shutdown_stop_writer \/ shutdown_stop_streamer
    \/ shutdown_end

\* a call made to a camera that has not been shut down
call_until_shutdown ==
    /\ ~closing
    /\ \/ call_arm \/ call_disarm \/ call_roll_on_stored \/ call_shutdown

\* a camera armed, disarmed or set rolling and then shut down, with its three
\* threads; every thread and every call in progress keeps running, no call
\* has to follow another, and none follows shutdown()
NextStop ==
    \/ call_until_shutdown
    \/ CallerStep \/ ShutdownStep \/ reply
    \/ LoopStep
    \/ metadata_loop_wait
    \/ frame_loop_get

SpecStop ==
    /\ Init /\ [][NextStop]_vars
    /\ WF_vars(CallerStep) /\ WF_vars(ShutdownStep) /\ WF_vars(reply)
    /\ WF_vars(LoopStep)
    /\ WF_vars(metadata_loop_wait) /\ WF_vars(frame_loop_get)

-----------------------------------------------------------------------------
(* Properties *)

\* the frame items enqueued so far
Range(q) == {q[i] : i \in 1..Len(q)}
EnqueuedItems ==
    Range(frame_queue) \cup Range(dispatched)
    \cup (IF fitem = NoItem THEN {} ELSE {fitem})

\* the local metadata dict of a frame item
MetaOf(item) == heap[item.meta]

\* the command op has just returned
Returns(op) == cpc # "returned" /\ cpc' = "returned" /\ cmd.op = op

\* C1: when a snap() that was not refused (camera not rolling, manager
\* reachable) returns, acquire_done is clear, the device trigger has been
\* called for it, and a trigger that returned has enqueued exactly one frame
\* for it (a trigger that raised has enqueued none); this holds for the
\* auto-armed and for the explicitly armed camera, and until the caller has
\* the reply.
C1_SnapOneFrameDoneClear ==
    (cpc = "returned" /\ cmd.op = "snap" /\ cres = "ok") =>
        /\ ~acquire_done
        /\ trig \in {"ok", "fail"}
        /\ trig = "ok" => enqueued = 1
        /\ trig = "fail" => enqueued = 0

\* an explicitly armed camera in a running scan has returned from a snap()
\* with its one frame
C1_Witness ==
    /\ cpc = "returned" /\ cmd.op = "snap" /\ cres = "ok"
    /\ armed /\ ~auto_armed /\ running
    /\ trig = "ok" /\ enqueued = 1 /\ ~acquire_done

\* C2: no snap() waits on acquire_done with the acquisition loop thread
\* gone, since nothing but that thread sets acquire_done, and nothing but
\* the waiting caller starts a new one.
C2_NoSnapWaitsOnDeadLoop ==
    ~(cpc = "snap_wait" /\ cmd.op = "snap" /\ ~acquire_done /\ ~loop_alive)

\* C3: when the disarm() that follows an arm() which armed the camera
\* returns, the armed flag, the rolling flag and the acquisition thread are
\* as arm() found them, and no thread runs; and no step taken while a second
\* disarm() runs changes anything of the camera.
C3_ArmDisarmRoundTrip ==
    [][/\ (Returns("disarm") /\ chain'.run = "arm_disarm") =>
            (Lifecycle' = chain'.pre /\ ~loop_alive' /\ ~armed' /\ ~rolling')
       /\ (cmd.op = "disarm" /\ chain.run = "arm_disarm"
            /\ cpc \in {"disarm", "disarm_join"}) =>
            UNCHANGED <<camVars, cfgVars, lpc>>]_vars

\* arm(0.5 s, 3), disarm() and a second disarm() have returned in a row
C3_Witness ==
    /\ cpc = "returned" /\ cmd.op = "disarm"
    /\ chain.run = "arm_disarm_disarm"
    /\ exposure_time = 500 /\ exposure_number = 3
    /\ ~armed /\ ~rolling /\ ~loop_alive

\* C4: roll_on() with no fps, or with an fps whose time per frame is within
\* the tolerance of the exposure time, on a rolling camera returns at once:
\* it leaves the acquisition thread where it is, arms and disarms nothing,
\* and leaves exposure time, exposure number and the saved pre-roll values
\* as they are.
C4_RollOnIdempotent ==
    [][(/\ cpc = "roll_on" /\ cpc' # "roll_on"
        /\ rolling
        /\ \/ cmd.fps = NoNumber
           \/ Abs(exposure_time - (1000 \div cmd.fps)) < ROLL_TOLERANCE) =>
            /\ cpc' = "returned" /\ cres' = "ok"
            /\ ev' = {}
            /\ UNCHANGED <<lpc, armed, rolling, end_acquisition,
                           exposure_time, exposure_number,
                           exposure_time_before_roll,
                           exposure_number_before_roll>>]_vars

\* a camera rolling at 100 frames per second (10 ms) has returned from
\* roll_on(fps=125) (8 ms) without a restart
C4_Witness ==
    /\ cpc = "returned" /\ cmd.op = "roll_on" /\ cmd.fps = 125
    /\ cres = "ok" /\ ev = {}
    /\ rolling /\ exposure_time = 10

\* C5: roll_on(fps) on a rolling camera with a time per frame beyond the
\* tolerance goes through roll_off(); and when such a roll_on returns, the
\* old thread has been joined, a new one has been started by arm() and is
\* at its start or waiting, the camera is rolling and armed, and the
\* exposure time is 1/fps.
C5_RollOnRestarts ==
    [][/\ (/\ cpc = "roll_on" /\ cpc' # "roll_on"
           /\ rolling /\ cmd.fps # NoNumber
           /\ Abs(exposure_time - (1000 \div cmd.fps)) >= ROLL_TOLERANCE) =>
            (cpc' = "roll_off" /\ "restart" \in ev')
       /\ (Returns("roll_on") /\ "restart" \in ev) =>
            /\ cres' = "ok"
            /\ {"disarm", "arm"} \subseteq ev'
            /\ rolling' /\ armed'
            /\ lpc' \in {"start", "wait"}
            /\ exposure_time' = 1000 \div cmd.fps]_vars

\* a camera rolling at the default 5 frames per second has returned from
\* roll_on(fps=100), restarted
C5_Witness ==
    /\ cpc = "returned" /\ cmd.op = "roll_on" /\ cmd.fps = 100
    /\ {"restart", "disarm", "arm"} \subseteq ev
    /\ rolling /\ armed /\ loop_alive /\ exposure_time = 10
    /\ exposure_time_before_roll = 1000

\* C6: abort() sets the abort flag, and on a rolling camera goes on into
\* roll_off(); when that abort() returns the camera is not rolling and the
\* acquisition loop thread has ended.
C6_AbortStopsRolling ==
    [][/\ (cpc = "abort" /\ cpc' # "abort") =>
            (abort_flag' /\ (rolling => cpc' = "roll_off"))
       /\ (Returns("abort") /\ cpc # "abort") =>
            (~rolling' /\ ~loop_alive')]_vars

\* abort() on a rolling camera has returned
C6_Witness ==
    /\ cpc = "returned" /\ cmd.op = "abort" /\ cres = "ok"
    /\ "disarm" \in ev
    /\ ~rolling /\ ~loop_alive

\* the path has no leading separator
Relative(p) == p = <<>> \/ Head(p) # "/"

\* C7: for a path that is set, _build_filename raises exactly when the
\* format is neither hdf5 nor tiff; otherwise the name is the base path (when
\* not empty, and dropped by an absolute path), the path and the prefix,
\* joined by "/", with "{0}" replaced by the counter and "{0:06d}" by the
\* counter padded to six digits, followed by ".h5" for hdf5 and ".tif" for
\* tiff; "scan_{0}" with counter 7 under "b" and "d" gives "b/d/scan_7.h5".
C7_BuildFilename ==
    (cpc = "returned" /\ cmd.op = "_build_filename" /\ save_path # None) =>
        LET num == IF counter = 0 THEN <<"0">>
                   ELSE IF counter = 7 THEN <<"7">>
                   ELSE Digits(counter)
            name == IF file_prefix = <<"s", "c", "a", "n", "_", "{0}">>
                    THEN <<"s", "c", "a", "n", "_">> \o num
                    ELSE IF file_prefix = <<"s", "{0:06d}">>
                    THEN <<"s">> \o Zeros(6 - Len(num)) \o num
                    ELSE file_prefix
            dir == IF base_path = <<>> \/ ~Relative(save_path) THEN save_path
                   ELSE base_path \o <<"/">> \o save_path
            ext == IF file_format = <<"h", "d", "f", "5">>
                   THEN <<".", "h", "5">> ELSE <<".", "t", "i", "f">>
        IN  /\ cres = "raised" <=>
                   file_format \notin {<<"h", "d", "f", "5">>,
                                       <<"t", "i", "f", "f">>}
            /\ cres = "ok" => filename = dir \o <<"/">> \o name \o ext
            /\ (/\ cres = "ok" /\ counter = 7 /\ file_format = HDF5
                /\ file_prefix = <<"s", "c", "a", "n", "_", "{0}">>
                /\ base_path = <<"b">> /\ save_path = <<"d">>) =>
                   filename = <<"b", "/", "d", "/", "s", "c", "a", "n", "_",
                                "7", ".", "h", "5">>

\* "scan_{0}" with counter 7 and format tiff under "b" and "d"
C7_Witness ==
    /\ cpc = "returned" /\ cmd.op = "_build_filename" /\ cres = "ok"
    /\ counter = 7 /\ file_format = TIFF
    /\ file_prefix = <<"s", "c", "a", "n", "_", "{0}">>
    /\ base_path = <<"b">> /\ save_path = <<"d">>
    /\ filename = <<"b", "/", "d", "/", "s", "c", "a", "n", "_", "7",
                    ".", "t", "i", "f">>

\* C8: the save_mode setter given a value that, lowered, is none of ram,
\* append and single raises, and leaves the configured save_mode and the
\* file writer's mode as they were.
C8_BadSaveModeRaises ==
    [][\A v \in ModeArgs :
          (Lower(v) \notin {RAM, APPEND, SINGLE} /\ set_save_mode(v)) =>
              (cres' = "raised" /\ UNCHANGED <<save_mode, fw_mode, cfgVars>>)
      ]_vars

\* save_mode was set to single, and then a bad value was refused
C8_Witness ==
    /\ cpc = "returned" /\ cmd.op = "save_mode" /\ cres = "raised"
    /\ save_mode = SINGLE /\ fw_mode = SINGLE

\* C9: whatever values the file_format and save_mode setters are given, the
\* configured file_format is hdf5 or tiff and the configured save_mode is
\* ram, append or single; a value that is not a known name or alias raises
\* and stores nothing.
C9_ConfigInvariant ==
    /\ file_format \in {HDF5, TIFF}
    /\ save_mode \in {RAM, APPEND, SINGLE}
    /\ [][/\ file_format' \in {HDF5, TIFF}
          /\ save_mode' \in {RAM, APPEND, SINGLE}
          /\ \A v \in FormatArgs :
                (/\ Lower(v) \notin {<<"h", "5">>, <<"h", "d", "f">>, HDF5,
                                     <<"t", "i", "f">>, TIFF}
                 /\ set_file_format(v)) =>
                    (cres' = "raised" /\ UNCHANGED <<file_format, save_mode>>)
          /\ \A v \in ModeArgs :
                (Lower(v) \notin {RAM, APPEND, SINGLE} /\ set_save_mode(v)) =>
                    (cres' = "raised" /\ UNCHANGED <<file_format, save_mode>>)
         ]_vars

\* the format was set to tiff through a setter, the mode to ram, and a bad
\* format was then refused
C9_Witness ==
    /\ cpc = "returned" /\ cmd.op = "file_format" /\ cres = "raised"
    /\ file_format = TIFF /\ save_mode = RAM

\* C10: the prefixes handed to the snap() calls of the running scan are
\* numbered 0, 1, 2, ... in the order of the calls, each is the scan name
\* followed by its number, no two are equal, and no two file names built
\* from them are equal.
C10_DistinctPrefixes ==
    /\ \A i \in 1..Len(prefixes) :
          /\ prefixes[i].k = i - 1
          /\ prefixes[i].prefix =
                ScanName(scan_number) \o <<"_">> \o Pad(prefixes[i].k)
    /\ \A i, j \in 1..Len(prefixes) :
          i < j =>
              /\ prefixes[j].k > prefixes[i].k
              /\ prefixes[i].prefix # prefixes[j].prefix
              /\ (prefixes[i].file # None /\ prefixes[j].file # None) =>
                     prefixes[i].file # prefixes[j].file

\* two snap() calls of the running scan have their prefixes and file names
C10_Witness ==
    /\ running /\ Len(prefixes) = 2
    /\ prefixes[1].k = 0 /\ prefixes[2].k = 1
    /\ prefixes[1].file # None /\ prefixes[2].file # None
    /\ cpc = "returned" /\ cmd.op = "snap" /\ cres = "ok"

\* C11: whatever the interleaving of enqueue_frame with the metadata loop,
\* the device fields and the acquisition_start of an enqueued frame's local
\* metadata come from the same grab_metadata request
C11_NoMixedMetadata ==
    \A item \in EnqueuedItems :
        (MetaOf(item).fields # 0 /\ MetaOf(item).start # 0)
            => MetaOf(item).fields = MetaOf(item).start

\* two frames are enqueued, one with the whole metadata of the first request
\* and one with the whole metadata of the second
C11_Witness ==
    \E i, j \in EnqueuedItems :
        /\ MetaOf(i).fields = 1 /\ MetaOf(i).start = 1
        /\ MetaOf(j).fields = 2 /\ MetaOf(j).start = 2

\* C12: the local metadata that one grab_metadata request produces (device
\* fields and acquisition_start) is never split across two frames
C12_SnapshotNotSplit ==
    \A i, j \in EnqueuedItems :
        (MetaOf(i).fields # 0 /\ MetaOf(i).fields = MetaOf(j).start)
            => i = j

\* C13: the frames taken by the dispatch loop, followed by the frames still
\* in the queue, are the frames enqueued, each once and in the order of
\* enqueue_frame; so no frame is dispatched twice, none is passed over, and
\* the loop ends only on an empty queue while closing
C13_FifoExactlyOnce ==
    LET all == dispatched \o frame_queue IN
    /\ Len(all) = nframes
    /\ \A i \in 1..Len(all) : all[i].frame = i
    /\ fitem # NoItem => fitem = dispatched[Len(dispatched)]
    /\ fpc = "exited" => closing

\* two frames have been dispatched while a third waits in the queue
C13_Witness ==
    /\ Len(dispatched) = 2
    /\ Len(frame_queue) = 1
    /\ fpc = "store"

\* C14: every frame that the dispatch loop passes to file_writer.store is
\* passed while the save setting is True
C14_NoStoreWhenSaveOff ==
    \A i \in 1..Len(stored) : stored[i].save

\* C20: no store failure ends the dispatch loop; a frame in the queue is
\* never left without a loop to take it
C20_StoreFailureKeepsLoop ==
    ~(fpc = "dead" /\ failed # "none" /\ frame_queue # <<>>)

\* C15: when the device trigger runs for a snap(exp_time = t, exp_num = n),
\* on a camera armed before the call or armed by it, the exposure time is t
\* and the exposure number is n, and they still are when snap() has returned
C15_SnapAppliesOverrides ==
    (/\ cmd.op = "snap" /\ cmd.t # NoNumber
     /\ \/ cpc = "snap_wait" /\ lpc = "trigger"
        \/ cpc = "returned" /\ cres = "ok" /\ trig # "none")
        => (exposure_time = cmd.t /\ exposure_number = cmd.n)

\* the caller's thread leaves the first lines of the method op
Leaves(op) == cpc = op /\ cpc' # op

\* C16 (amended): snap() on a rolling camera raises nothing: it returns
\* to the caller at once, refused with a logged warning
C16_SnapWhileRollingReturns ==
    [][(Leaves("snap") /\ rolling)
           => (cpc' = "returned" /\ cres' = "refused")]_vars

\* a snap() issued while rolling has returned, refused
C16_Witness ==
    cpc = "returned" /\ cmd.op = "snap" /\ cres = "refused" /\ rolling

\* C16 as stated: snap() on a rolling camera ends with an exception raised
\* to the caller
C16_SnapWhileRollingRaises ==
    [][(Leaves("snap") /\ rolling)
           => (cpc' = "returned" /\ cres' = "raised")]_vars

\* C17: snap() on a rolling camera, or with the manager unreachable, is over
\* after its first lines and has changed nothing: not the session flags,
\* the file name, the counters, the prefixes handed out, the trigger and
\* done signals, the exposure settings or the loop thread
C17_RefusedSnapHasNoEffect ==
    [][(Leaves("snap") /\ (rolling \/ ~man_ok))
           => (/\ cpc' = "returned"
               /\ UNCHANGED <<camVars, cfgVars, lpc, mgrVars, prefixes>>)]_vars

\* a snap() issued with the manager gone, on a camera that is neither armed
\* nor rolling, has returned
C17_Witness ==
    /\ cpc = "returned" /\ cmd.op = "snap" /\ cres = "refused"
    /\ ~connected /\ ~rolling /\ ~armed

\* C18: arm() on a rolling camera raises, with or without exposure
\* arguments, and leaves the session as it was: armed, rolling, the
\* exposure settings, end_acquisition and the trigger and done signals keep
\* their values and no acquisition thread is started
C18_ArmWhileRollingRaises ==
    [][(Leaves("arm") /\ rolling)
           => (/\ cpc' = "returned" /\ cres' = "raised"
               /\ UNCHANGED <<camVars, cfgVars, lpc>>)]_vars

\* an arm() with exposure arguments issued while rolling has raised
C18_Witness ==
    /\ cpc = "returned" /\ cmd.op = "arm" /\ cres = "raised"
    /\ rolling /\ cmd.t # NoNumber

\* C19: while a scan is running, no step changes the investigation or the
\* experiment, and every call of one of the two setters ends with an
\* exception
C19_ConfigFrozenDuringScan ==
    [][running => (/\ UNCHANGED <<investigation, experiment>>
                   /\ mres' # mres => mres'.res = "raised")]_vars

\* during a scan of experiment e, setting the experiment to the valid name
\* f has raised
C19_Witness ==
    /\ running
    /\ experiment = EXPERIMENT
    /\ mres = [op |-> "experiment", arg |-> <<"f">>, res |-> "raised"]

\* C21: shutdown loses no frame: once stop() was called on the file writer
\* no frame is passed to its store any more, and the same for the frame
\* streamer, the frames enqueued before shutdown() having been stored
\* before
C21_NoStoreAfterStop ==
    [][/\ fw_stopped => stored' = stored
       /\ fs_stopped => streamed' = streamed]_vars

\* C22: a start_scan called when no scan runs, with or without localmeta,
\* marks the scan running, resets the prefix counter to 0, stores the
\* scan_info built for the new scan number and its localmeta, and returns it
C22_StartScanStoresAndReturns ==
    [][(~running /\ running') =>
          /\ mcounter' = 0
          /\ mres'.op = "start_scan"
          /\ mres'.res = "scan_info"
          /\ scan_info' = ScanInfo(scan_number',
                                   IF mres'.arg = None THEN <<>>
                                   ELSE mres'.arg)
      ]_vars

\* C23: the camera counter changes only in reset_counter and in a snap()
\* that reaches its naming step outside a scan, which adds exactly 1; a
\* snap() inside a scan, arm, disarm, roll_on, roll_off, abort and the
\* acquisition loop leave it as it is
C23_CounterMonotonic ==
    [][/\ (counter' # counter /\ cmd'.op # "reset_counter") =>
             /\ cmd.op = "snap" /\ cpc = "snap_name" /\ ~in_scan
             /\ counter' = counter + 1
       /\ (cpc = "snap_name" /\ cpc' # "snap_name" /\ ~in_scan) =>
             counter' = counter + 1
       /\ (cmd'.op = "reset_counter" /\ counter' < counter) =>
             (cpc = "idle" /\ cpc' = "returned")
      ]_vars

\* a snap() called after a scan has ended has returned: it has counted
C23_Witness ==
    /\ cpc = "returned" /\ cmd.op = "snap" /\ cres = "ok"
    /\ counter = 1 /\ ~running /\ scan_dirs[mgr_path] > 0

\* C24: acquire_done is set by the acquisition loop only in the step in
\* which the device trigger ends, by returning or by raising, and every
\* trigger that ends sets it; the branch that asks the file writer to close
\* the file is entered only by that step, so that the close comes after
C24_DoneAfterTriggerBeforeClose ==
    [][/\ (~acquire_done /\ acquire_done') =>
             (lpc = "trigger" /\ lpc' \in {"post", "failed"})
       /\ (lpc = "trigger" /\ lpc' # "trigger") => acquire_done'
       /\ (lpc' \in {"post", "failed"} /\ lpc' # lpc) =>
             (lpc = "trigger" /\ acquire_done')
       /\ (opened /\ ~opened') => lpc \in {"post", "failed"}
      ]_vars

\* the trigger of a camera that is not rolling has returned and acquire_done
\* is set, while the file opened for the pass is not closed yet
C24_Witness ==
    /\ lpc = "post" /\ acquire_done /\ opened /\ ~rolling
    /\ cpc = "snap_wait"

\* C25: the file writer is never left with a file open: a pass of the
\* acquisition loop that asked it to open a file asks it to close that file
\* when the pass ends, whether the trigger returned or raised, and a pass
\* of a rolling camera asks for neither
C25_OpenedFileIsClosed ==
    [][/\ (opened /\ ~opened') => closes
       /\ (lpc = "wait" /\ lpc' = "trigger" /\ rolling) => ~opened'
       /\ (lpc \in {"post", "failed"} /\ lpc' # lpc /\ ~opened) => ~closes
      ]_vars

\* C26: when the device trigger has raised on a rolling camera, the
\* acquisition loop's handling of the failure rolls the camera off: it ends
\* with rolling and armed False, the exposure settings saved by roll_on
\* restored, and the loop thread terminated
C26_FailedRollingTriggerRollsOff ==
    [][(lpc = "failed" /\ rolling /\ lpc' # "failed") =>
          /\ lpc' = "exited"
          /\ ~rolling' /\ ~armed'
          /\ exposure_time_before_roll \notin {NoNumber, 0} =>
                exposure_time' = exposure_time_before_roll
      ]_vars

\* C27: whenever frame_queue_empty_flag is set the frame queue is empty and
\* the dispatch loop holds no frame that it has not passed to the sinks yet
C27_EmptyFlagMeansDrained ==
    frame_queue_empty_flag => (frame_queue = <<>> /\ fitem = NoItem)

\* C28: shutdown() stops the file writer only when the camera is rolled
\* off, the acquisition thread of a camera it has rolled off having ended;
\* it stops the frame streamer after the file writer and sets closing after
\* both; the metadata loop ends only then, at its first poll that times
\* out, and the dispatch loop only then with the queue empty
C28_ShutdownOrder ==
    [][/\ cpc' = "shutdown_stop_writer" =>
             /\ ~rolling'
             /\ "disarm" \in ev' => (~loop_alive' /\ ~armed')
       /\ (~fw_stopped /\ fw_stopped') =>
             (cpc = "shutdown_stop_writer" /\ ~rolling /\ ~fs_stopped'
              /\ ~closing')
       /\ (~fs_stopped /\ fs_stopped') => (fw_stopped /\ ~closing')
       /\ (~closing /\ closing') => (fw_stopped /\ fs_stopped)
       /\ (mpc = "wait" /\ mpc' # "wait" /\ ~grab_metadata) =>
             (closing /\ mpc' = "exited")
       /\ (fpc # "exited" /\ fpc' = "exited") =>
             (closing /\ frame_queue = <<>>)
       /\ (fpc = "get" /\ frame_queue = <<>> /\ closing /\ fpc' # fpc) =>
             fpc' = "exited"
      ]_vars

\* the shutdown() of a rolling camera is over: the acquisition thread has
\* ended, both sinks are stopped, closing is set and the metadata loop and
\* the dispatch loop have ended
C28_Witness ==
    /\ cpc = "returned" /\ cmd.op = "shutdown" /\ "disarm" \in ev
    /\ ~rolling /\ ~armed /\ ~loop_alive
    /\ fw_stopped /\ fs_stopped /\ closing
    /\ mpc = "exited" /\ fpc = "exited"

\* C29: at most one acquisition loop thread is alive: a thread is started
\* only by arm() on a camera that is neither armed nor rolling, and whenever
\* one is started the thread started before it has ended
C29_OneAcquisitionThread ==
    [][/\ (~armed /\ armed') =>
             (cpc = "arm" /\ ~rolling /\ lpc' = "start" /\ ~loop_alive)
       /\ (lpc' = "start" /\ lpc # "start") => (~armed /\ armed')
       /\ (armed /\ ~armed') => ~loop_alive
      ]_vars

\* roll_on with another fps has rolled the camera off, joining its thread,
\* and armed it again: a second thread is starting
C29_Witness ==
    /\ lpc = "start" /\ armed
    /\ cmd.op = "roll_on" /\ {"restart", "disarm", "arm"} \subseteq ev

\* C30: a disarm() called on a rolling camera goes into roll_off, whose
\* nested disarm() goes on to the join instead of delegating again, so that
\* the calls never nest deeper than that; with the device trigger returning
\* the call returns, and when it does the camera is neither rolling nor
\* armed and the acquisition thread has ended
C30_DisarmWhileRolling ==
    /\ [][/\ (cmd.op = "disarm" /\ cpc = "disarm" /\ cpc' # "disarm") =>
                IF cstack = <<>>
                THEN rolling => cpc' = "roll_off"
                ELSE cpc' = "disarm_join"
          /\ cmd'.op = "disarm" => Len(cstack') <= 1
          /\ (cmd'.op = "disarm" /\ cpc' = "returned" /\ "disarm" \in ev') =>
                (~rolling' /\ ~armed' /\ ~loop_alive' /\ cres' = "ok")
         ]_vars
    /\ (cmd.op = "disarm" /\ cpc = "disarm" /\ cstack = <<>> /\ rolling)
          ~> (cmd.op = "disarm" /\ cpc = "returned")

\* a disarm() called on a rolling camera has returned through roll_off
C30_Witness ==
    /\ cmd.op = "disarm" /\ cpc = "returned" /\ "disarm" \in ev
    /\ ~rolling /\ ~armed /\ ~loop_alive

\* C31: roll_off undoes what roll_on did to the exposure settings: the
\* values saved when rolling started are those in force just before, a
\* roll_on that restarts rolling with another fps leaves the saved values
\* as they are, nothing changes the settings while the camera is rolling,
\* rolling ends only with the saved values back in force, and a roll_off
\* of a camera that is not rolling changes nothing
C31_RollRoundTrip ==
    [][/\ (<<exposure_time_before_roll, exposure_number_before_roll>>' #
           <<exposure_time_before_roll, exposure_number_before_roll>>) =>
             /\ cpc = "roll_on" /\ ~rolling /\ "restart" \notin ev
             /\ exposure_time_before_roll' = exposure_time
             /\ exposure_number_before_roll' = exposure_number
       /\ (cpc = "roll_on" /\ cpc' # "roll_on" /\ ~rolling) =>
             /\ exposure_time_before_roll' = exposure_time
             /\ exposure_number_before_roll' = exposure_number
       /\ (rolling /\ rolling') =>
             UNCHANGED <<exposure_time, exposure_number>>
       /\ (rolling /\ ~rolling') =>
             /\ exposure_time' = exposure_time_before_roll
             /\ exposure_number' = exposure_number_before_roll
       /\ (cpc = "roll_off" /\ cpc' # "roll_off" /\ ~rolling) =>
             UNCHANGED <<camVars, cfgVars, lpc>>
      ]_vars

\* C32: when an arm() that armed the camera returns, the abort flag,
\* acquire_done and do_acquire are all clear, and the abort flag is cleared
\* only while that arm() is in progress, so that an abort() made after it
\* has returned stays
C32_ArmClearsFlags ==
    [][/\ (cpc # "returned" /\ cpc' = "returned" /\ cmd.op = "arm"
           /\ cres' = "ok") =>
             (~abort_flag' /\ ~acquire_done' /\ ~do_acquire')
       /\ (abort_flag /\ ~abort_flag') =>
             (cmd.op = "arm" /\ cpc \notin {"idle", "returned"})
      ]_vars

\* C33: a snap() that fetches its prefix from a running scan builds its
\* file name under the scan path the manager has at that moment, and goes
\* on to the acquisition
C33_SnapUnderCurrentScanPath ==
    [][(cpc = "snap_prefix" /\ cpc' # "snap_prefix" /\ connected /\ running) =>
          /\ cpc' = "snap_wait"
          /\ filename' = build_filename(next_prefix.prefix, mgr_scan_path,
                                        counter).val
      ]_vars

\* C34: once enqueue_frame has attached a bundle to a frame, the bundle the
\* camera holds for the frames to come has nothing of it: it holds no
\* acquisition start of a request whose device fields went with a frame
\* already enqueued
C34_NoStaleBundleAfterEnqueue ==
    \A item \in EnqueuedItems :
        item.meta # localmeta =>
            ~(/\ heap[localmeta].start # 0
              /\ heap[item.meta].fields = heap[localmeta].start)

\* C35: whenever the camera is armed, not rolling, and no command is in
\* progress, its acquisition loop thread is running: it has not ended
C35_ArmedHasLiveLoop ==
    (armed /\ ~rolling /\ cpc = "idle") => loop_alive

\* C36: the dispatch loop hands a frame to the file writer exactly when the
\* frame was put in the queue by an acquisition that was not rolling
C36_StoredIffNotRolling ==
    [][(fpc = "store" /\ fpc' = "stream") =>
           ((stored' # stored) <=> ~fitem.rolling)]_vars

\* C37: a frame of an acquisition that was not rolling is handed to the file
\* writer only while the file of an acquisition is open there: after the
\* open of the pass and before its close
C37_StoreBetweenOpenAndClose ==
    [][(stored' # stored /\ ~fitem.rolling) => opened]_vars

\* C38: while the camera is rolling and no command is in progress, the
\* exposure time is 1/roll_fps of the stored roll_fps, and the stored roll_fps
\* is at most MAX_FPS
C38_RollingExposureIsStoredFps ==
    (rolling /\ cpc = "idle") =>
        /\ roll_fps <= MAX_FPS
        /\ exposure_time = TimePerFrame(roll_fps)

\* C39: when the acquisition thread starts the device trigger of a snap(),
\* the abort flag is clear, whatever abort() was called before that snap(),
\* on a camera armed by the snap() as on one armed by arm() before
C39_SnapTriggerStartsUnaborted ==
    [][(cmd.op = "snap" /\ lpc = "wait" /\ lpc' = "trigger") =>
           ~abort_flag]_vars

\* C40: once shutdown() has returned, the metadata loop, the dispatch loop
\* and the acquisition loop, if one was started, all come to their end
C40_ShutdownEndsThreads ==
    (cmd.op = "shutdown" /\ cpc = "returned") ~>
        (~loop_alive /\ mpc = "exited" /\ fpc = "exited")

====
